---- MODULE Spec2Model ----
(***************************************************************************)
(* PSM simulation engine (src/simulation.py): the monthly staffing         *)
(* simulation simulate_policy, the hire-event log, the stress tester and   *)
(* the grid-search optimizer.                                              *)
(*                                                                         *)
(* Number representation.  The source computes in binary floating point;   *)
(* here every real quantity is a fixed-point integer, rounded down after   *)
(* each operation:                                                         *)
(*   FTE, providers, visits per day, pts/APC, factors   thousandths        *)
(*   attrition rates                                    1/10000 (bp)       *)
(*   money, monthly visit counts                        units              *)
(*   hourly rates                                       cents              *)
(*   percentages                                        whole percents     *)
(***************************************************************************)
EXTENDS Integers, Sequences, FiniteSets, TLC

Max2(a, b) == IF a >= b THEN a ELSE b
Min2(a, b) == IF a <= b THEN a ELSE b
MulM(a, b) == (a * b) \div 1000            \* product of two thousandths
DivM(a, b) == (a * 1000) \div b            \* quotient of two thousandths

RECURSIVE SumSeq(_)
SumSeq(q) == IF q = << >> THEN 0 ELSE Head(q) + SumSeq(Tail(q))

RECURSIVE MaxSeq(_, _)
\* Python max(iterable, default=d) for a non-empty or empty sequence
MaxSeq(q, d) ==
    IF q = << >> THEN d
    ELSE IF Len(q) = 1 THEN q[1] ELSE Max2(Head(q), MaxSeq(Tail(q), d))

MONTH_TO_QUARTER == << 0,0,0, 1,1,1, 2,2,2, 3,3,3 >>

(***************************************************************************)
(* SupportStaffConfig and ClinicConfig with the defaults of the source.    *)
(***************************************************************************)
DefaultSupport ==
    [ physician_rate_hr   |-> 13579,
      app_rate_hr         |-> 6200,
      psr_rate_hr         |-> 2123,
      ma_rate_hr          |-> 2414,
      rt_rate_hr          |-> 3136,
      supervisor_rate_hr  |-> 2825,
      ma_ratio            |-> 1000,
      psr_ratio           |-> 1000,
      rt_flat_fte         |-> 1000,
      supervisor_hrs_mo   |-> 0,
      supervisor_admin_mo |-> 0,
      benefits_load_pct   |-> 30,
      bonus_pct           |-> 10,
      ot_sick_pct         |-> 4 ]

DefaultConfig ==
    [ base_visits_per_day                    |-> 80000,
      budgeted_patients_per_provider_per_day |-> 36000,
      peak_factor                            |-> 1100,
      quarterly_volume_impact                |-> << 200, 0, -100, 50 >>,
      annual_growth_pct                      |-> 10,
      operating_days_per_week                |-> 7,
      shifts_per_day                         |-> 1,
      shift_hours                            |-> 12,
      fte_shifts_per_week                    |-> 3000,
      fte_fraction                           |-> 900,
      load_band_lo                           |-> 30000,
      load_band_hi                           |-> 38000,
      load_winter_target                     |-> 36000,
      use_load_band                          |-> TRUE,
      min_coverage_fte                       |-> 2330,
      annual_provider_cost_perm              |-> 200000,
      annual_provider_cost_flex              |-> 280000,
      net_revenue_per_visit                  |-> 110,
      swb_target_per_visit                   |-> 32,
      support                                |-> DefaultSupport,
      days_to_sign                           |-> 30,
      days_to_credential                     |-> 60,
      days_to_independent                    |-> 90,
      flu_anchor_month                       |-> 12,
      annual_attrition_pct                   |-> 18,
      turnover_replacement_pct               |-> 40,
      overload_attrition_factor              |-> 1500,
      summer_shed_floor_pct                  |-> 850,
      ramp_months                            |-> 0,
      ramp_productivity                      |-> << >>,
      monthly_fixed_overhead                 |-> 0,
      burnout_pct_per_red_month              |-> 25,
      overstaff_penalty_per_fte_month        |-> 3000,
      swb_violation_penalty                  |-> 500000,
      yellow_threshold_above                 |-> 0,
      red_threshold_above                    |-> 4000 ]

\* SupportStaffConfig.total_multiplier, in percent
total_multiplier(sup) == 100 + sup.benefits_load_pct + sup.bonus_pct + sup.ot_sick_pct

\* cost of one staff member for a month: rate (cents/h) x hours (1/100 h) x multiplier
StaffMonthCost(rate_hr, hours_per_staff_mo, sup) ==
    (((rate_hr * hours_per_staff_mo) \div 10000) * total_multiplier(sup)) \div 100

\* SupportStaffConfig.monthly_support_cost
monthly_support_cost(sup, avg_providers_on_floor, shift_hours, operating_days_per_week) ==
    LET operating_days_mo  == (operating_days_per_week * 5200) \div 12
        hours_per_staff_mo == shift_hours * operating_days_mo
        ma_cost  == MulM(MulM(avg_providers_on_floor, sup.ma_ratio),
                         StaffMonthCost(sup.ma_rate_hr, hours_per_staff_mo, sup))
        psr_cost == MulM(MulM(avg_providers_on_floor, sup.psr_ratio),
                         StaffMonthCost(sup.psr_rate_hr, hours_per_staff_mo, sup))
        rt_cost  == MulM(sup.rt_flat_fte,
                         StaffMonthCost(sup.rt_rate_hr, hours_per_staff_mo, sup))
        phys_sup_cost == IF sup.supervisor_hrs_mo > 0
                         THEN StaffMonthCost(sup.physician_rate_hr,
                                             sup.supervisor_hrs_mo * 100, sup)
                         ELSE 0
        sup_admin_cost == IF sup.supervisor_admin_mo > 0
                          THEN StaffMonthCost(sup.supervisor_rate_hr,
                                              sup.supervisor_admin_mo * 100, sup)
                          ELSE 0
    IN  ma_cost + psr_cost + rt_cost + phys_sup_cost + sup_admin_cost

\* ClinicConfig.monthly_attrition_rate, in 1/10000
monthly_attrition_rate(c) == (c.annual_attrition_pct * 100) \div 12

turnover_replacement_cost_per_provider(c) ==
    (c.annual_provider_cost_perm * c.turnover_replacement_pct) \div 100

burnout_penalty_per_red_month(c) ==
    (c.annual_provider_cost_perm * c.burnout_pct_per_red_month) \div 100

\* fte_per_shift_slot with the ratio upside down
fte_per_shift_slotInverted(c) ==
    IF c.operating_days_per_week <= 0 THEN 1000
    ELSE c.fte_shifts_per_week \div c.operating_days_per_week

\* fte_per_shift_slot from shifts_per_week_per_fte = fte_shifts_per_week / fte_fraction
fte_per_shift_slotByFraction(c) ==
    IF c.fte_shifts_per_week <= 0 THEN 1000
    ELSE (c.operating_days_per_week * c.fte_fraction * 1000) \div c.fte_shifts_per_week

\* ClinicConfig.fte_per_shift_slot: fte_fraction and shifts_per_day take no part
fte_per_shift_slot(c) ==
    IF c.fte_shifts_per_week <= 0 THEN 1000
    ELSE (c.operating_days_per_week * 1000 * 1000) \div c.fte_shifts_per_week

seasonality_index(c) ==
    [mm \in 0..11 |-> 1000 + c.quarterly_volume_impact[MONTH_TO_QUARTER[mm + 1] + 1]]

(***************************************************************************)
(* (1 + annual_growth_pct/100) ** (month_idx/12), in thousandths, for the  *)
(* growth rates the configurations below use: 0 % and 10 % a year.         *)
(***************************************************************************)
GrowthTable10 ==
    << 1000, 1008, 1016, 1024, 1032, 1041, 1049, 1057, 1066, 1074, 1083, 1091,
       1100, 1109, 1118, 1127, 1136, 1145, 1154, 1163, 1172, 1182, 1191, 1200,
       1210, 1220, 1229, 1239, 1249, 1259, 1269, 1279, 1289, 1300, 1310, 1320,
       1331, 1342, 1352, 1363, 1374, 1385, 1396, 1407, 1418, 1430, 1441, 1453,
       1464, 1476, 1488, 1499, 1511, 1523, 1536, 1548, 1560, 1573, 1585, 1598 >>

growth_mult(annual_growth_pct, month_idx) ==
    IF annual_growth_pct = 0 THEN 1000 ELSE GrowthTable10[month_idx + 1]

\* compute_demand: <<visits_per_day, seasonal_mult, providers_per_shift, fte_required>>
compute_demand(month_idx, c, volume_shock) ==
    LET cal           == month_idx % 12
        seasonal_mult == seasonality_index(c)[cal]
        visits == MulM(MulM(MulM(MulM(c.base_visits_per_day, seasonal_mult),
                                 c.peak_factor),
                            growth_mult(c.annual_growth_pct, month_idx)),
                       1000 + volume_shock)
        providers_per_shift == DivM(visits, c.budgeted_patients_per_provider_per_day)
        fte_required        == MulM(providers_per_shift, fte_per_shift_slot(c))
    IN  << visits, seasonal_mult, providers_per_shift, fte_required >>

fte_for_load_target(visits_per_day, load_target, c) ==
    IF load_target <= 0 THEN 0
    ELSE MulM(DivM(visits_per_day, load_target), fte_per_shift_slot(c))

_FTE_INCREMENTS == << 250, 300, 500, 600, 750, 900, 1000, 1250, 1500, 2000 >>

\* _round_up_fte with the sizes above 2.0 cut down to the multiple of 0.5 below
_round_up_fteFloorsAboveTwo(raw) ==
    IF raw <= 0 THEN 0
    ELSE IF \E i \in DOMAIN _FTE_INCREMENTS : raw <= _FTE_INCREMENTS[i]
         THEN LET i == CHOOSE j \in DOMAIN _FTE_INCREMENTS :
                          /\ raw <= _FTE_INCREMENTS[j]
                          /\ \A k \in 1..(j - 1) : raw > _FTE_INCREMENTS[k]
              IN  _FTE_INCREMENTS[i]
         ELSE ((raw * 2) \div 1000) * 500

\* _round_up_fte: the first increment >= raw, above 2.0 the next multiple of 0.5
_round_up_fte(raw) ==
    IF raw <= 0 THEN 0
    ELSE IF \E i \in DOMAIN _FTE_INCREMENTS : raw <= _FTE_INCREMENTS[i]
         THEN LET i == CHOOSE j \in DOMAIN _FTE_INCREMENTS :
                          /\ raw <= _FTE_INCREMENTS[j]
                          /\ \A k \in 1..(j - 1) : raw > _FTE_INCREMENTS[k]
              IN  _FTE_INCREMENTS[i]
         ELSE ((raw * 2 + 999) \div 1000) * 500


(***************************************************************************)
(* Hire-event log.                                                         *)
(***************************************************************************)
RECURSIVE PostDate(_, _)
\* the while loop of _log_hire that walks the posting month back into 1..12
PostDate(post_cal_month, post_year) ==
    IF post_cal_month <= 0 THEN PostDate(post_cal_month + 12, post_year - 1)
    ELSE << post_cal_month, post_year >>

RECURSIVE IndepDate(_, _)
\* the while loop of _log_hire that walks the independence month forward into 1..12
IndepDate(indep_cal, indep_year) ==
    IF indep_cal > 12 THEN IndepDate(indep_cal - 12, indep_year + 1)
    ELSE << indep_cal, indep_year >>

\* _log_hire: the list with the new HireEvent appended
_log_hire(hire_events, sim_m, cal_month, year, fte_hired, mode, lead_months, c) ==
    LET post  == PostDate(cal_month - lead_months, year)
        indep == IndepDate(cal_month + c.ramp_months, year)
    IN  Append(hire_events,
               [ simulation_month  |-> sim_m + 1,
                 calendar_month    |-> cal_month,
                 year              |-> year,
                 fte_hired         |-> fte_hired,
                 mode              |-> mode,
                 post_by_month     |-> post[1],
                 post_by_year      |-> Max2(1, post[2]),
                 independent_month |-> indep[1],
                 independent_year  |-> indep[2] ])

(***************************************************************************)
(* simulate_policy: the values fixed before the loop.                      *)
(***************************************************************************)
lead_months(c) ==
    (c.days_to_sign + c.days_to_credential + c.days_to_independent + 29) \div 30

req_post_month(c) == Max2(1, c.flu_anchor_month - lead_months(c))

flu_months(c) == { ((c.flu_anchor_month - 1 + offset) % 12) + 1 : offset \in 0..3 }

pre_flu_months(c) ==
    { ((c.flu_anchor_month - 1 - offset) % 12) + 1 : offset \in 1..lead_months(c) }

summer_months == {7, 8}

active_pre_flu(c) ==
    { ((c.flu_anchor_month - 1 - offset) % 12) + 1 : offset \in 1..3 } \ summer_months

RECURSIVE PowBp(_, _)
\* x ** k for a rate x in 1/10000
PowBp(x, k) == IF k = 0 THEN 10000 ELSE (PowBp(x, k - 1) * x) \div 10000

\* the locals of simulate_policy when the loop is entered; the starting demand is
\* computed first, and compute_demand divides by the budget
InitLocals(base_fte, winter_fte, c) ==
    IF c.budgeted_patients_per_provider_per_day = 0
    THEN [ paid_fte               |-> 0,
           ramp_cohorts           |-> << >>,
           deferred_fte           |-> 0,
           scheduled_anchor_hires |-> << >>,
           summer_floor_fte       |-> 0,
           months                 |-> << >>,
           hire_events            |-> << >>,
           total_score            |-> 0,
           total_swb_cost         |-> 0,
           total_simulated_visits |-> 0,
           total_ebitda           |-> 0,
           exc                    |-> "ZeroDivisionError" ]
    ELSE
    LET _start_visits == compute_demand(0, c, 0)[1]
        _mid     == (c.load_band_lo + c.load_band_hi) \div 2
        paid_fte == IF c.use_load_band
                    THEN fte_for_load_target(_start_visits, _mid, c)
                    ELSE base_fte
    IN  [ paid_fte               |-> paid_fte,
          ramp_cohorts           |-> << >>,
          deferred_fte           |-> 0,
          scheduled_anchor_hires |-> << >>,
          summer_floor_fte       |-> MulM(paid_fte, c.summer_shed_floor_pct),
          months                 |-> << >>,
          hire_events            |-> << >>,
          total_score            |-> 0,
          total_swb_cost         |-> 0,
          total_simulated_visits |-> 0,
          total_ebitda           |-> 0,
          exc                    |-> "none" ]

(***************************************************************************)
(* simulate_policy: one pass of the month loop.                            *)
(***************************************************************************)
\* a dict's get(key, 0) and the dict with one key set
DictGet(d, k)     == IF k \in DOMAIN d THEN d[k] ELSE 0
DictPut(d, k, v)  == [x \in DOMAIN d \cup {k} |-> IF x = k THEN v ELSE d[x]]
DictDrop(d, k)    == [x \in DOMAIN d \ {k} |-> d[x]]

\* CohortDrag with the productivity gap taken the wrong way round
CohortDragSignSlip(cohort, c) ==
    LET ramp_idx == c.ramp_months - cohort[1]
    IN  IF ramp_idx < Len(c.ramp_productivity)
        THEN MulM(cohort[2], c.ramp_productivity[ramp_idx + 1] - 1000)
        ELSE 0

\* the summand of one cohort in the ramp drag (nothing once the curve has ended)
CohortDrag(cohort, c) ==
    LET ramp_idx == c.ramp_months - cohort[1]
    IN  IF ramp_idx < Len(c.ramp_productivity)
        THEN MulM(cohort[2], 1000 - c.ramp_productivity[ramp_idx + 1])
        ELSE 0

RampDrag(ramp_cohorts, c) ==
    SumSeq([i \in DOMAIN ramp_cohorts |-> CohortDrag(ramp_cohorts[i], c)])

\* the cohorts after the month: every counter decremented, expired cohorts dropped
Surviving(ramp_cohorts) ==
    SelectSeq([i \in DOMAIN ramp_cohorts |->
                  << ramp_cohorts[i][1] - 1, ramp_cohorts[i][2] >>],
              LAMBDA cohort : cohort[1] > 0)

\* ExcessPct without the clamp at zero
ExcessPctSigned(current_load, budget) == DivM(current_load - budget, budget)

\* excess_pct of the attrition block: the estimated load's excess over budget
ExcessPct(current_load, budget) == Max2(0, DivM(current_load - budget, budget))

\* the overload-responsive attrition of one month, estimated before the month's hires
Attrition(paid_fte, ramp_cohorts, visits_per_day, c) ==
    LET budget       == c.budgeted_patients_per_provider_per_day
        fte_per_slot == fte_per_shift_slot(c)
        base_monthly_attrition == monthly_attrition_rate(c)
        _prospective_drag      == RampDrag(ramp_cohorts, c)
        _effective_fte_for_att == Max2(0, paid_fte - _prospective_drag)
        current_providers == IF fte_per_slot > 0
                             THEN DivM(_effective_fte_for_att, fte_per_slot) ELSE 0
        current_load      == IF current_providers > 0
                             THEN DivM(visits_per_day, current_providers) ELSE budget
        excess_pct        == ExcessPct(current_load, budget)
        effective_monthly_attrition ==
            (base_monthly_attrition
                * (1000 + MulM(c.overload_attrition_factor, excess_pct))) \div 1000
    IN  [ current_load                |-> current_load,
          excess_pct                  |-> excess_pct,
          effective_monthly_attrition |-> effective_monthly_attrition,
          overload_attrition_delta    |->
              effective_monthly_attrition - base_monthly_attrition,
          attrition_events            |->
              (paid_fte * effective_monthly_attrition) \div 10000 ]

\* AfterAttrition without the floor
AfterAttritionNoFloor(paid_fte, attrition_events, c) == paid_fte - attrition_events

\* headcount after the month's attrition, floored at the minimum coverage
AfterAttrition(paid_fte, attrition_events, c) ==
    Max2(c.min_coverage_fte, paid_fte - attrition_events)

\* Zone with strict comparisons
ZoneStrict(pts_per_prov, c) ==
    LET budget == c.budgeted_patients_per_provider_per_day
    IN  IF pts_per_prov < budget + c.yellow_threshold_above THEN "Green"
        ELSE IF pts_per_prov < budget + c.red_threshold_above THEN "Yellow"
        ELSE "Red"

\* the zone of a workload
Zone(pts_per_prov, c) ==
    LET budget == c.budgeted_patients_per_provider_per_day
    IN  IF pts_per_prov <= budget + c.yellow_threshold_above THEN "Green"
        ELSE IF pts_per_prov <= budget + c.red_threshold_above THEN "Yellow"
        ELSE "Red"

\* workload of the month; 9999.0 when nobody is on the floor
PtsPerProv(visits_per_day, providers_on_floor) ==
    IF providers_on_floor > 0 THEN DivM(visits_per_day, providers_on_floor)
    ELSE 9999000

\* burnout_per_red * severity ** 2, severity = overload_pts / max(red_threshold, 1)
BurnoutPen(overload_pts, c) ==
    IF overload_pts > 0
    THEN LET sev == (overload_pts * 100) \div Max2(c.red_threshold_above, 1000)
             q   == sev \div 100
             f   == sev % 100
             b   == burnout_penalty_per_red_month(c)
         IN  b * q * q + (2 * b * q * f) \div 100 + (b * f * f) \div 10000
    ELSE 0

\* the second half of the look-ahead: the bridge hire when paid_fte cannot carry the
\* months before the anchor, then the hire scheduled to start in the anchor month
PreFluSchedule(s, m, c, target_fte, bridge_min_fte) ==
    LET cal_month == (m % 12) + 1
        year      == (m \div 12) + 1
        months_to_anchor == (c.flu_anchor_month - cal_month) % 12
        bridged       == s.paid_fte < bridge_min_fte
        _bridge_hires == _round_up_fte(bridge_min_fte - s.paid_fte)
        paid_fte      == IF bridged THEN s.paid_fte + _bridge_hires ELSE s.paid_fte
        events1       == IF bridged
                         THEN _log_hire(s.hire_events, m, cal_month, year,
                                        _bridge_hires, "growth", lead_months(c), c)
                         ELSE s.hire_events
        already_scheduled == DictGet(s.scheduled_anchor_hires, year)
        effective_dec_fte ==
            (paid_fte * PowBp(10000 - monthly_attrition_rate(c), months_to_anchor))
                \div 10000 + already_scheduled
        new_hires == _round_up_fte(target_fte - effective_dec_fte)
    IN  [ paid_fte     |-> paid_fte,
          ramp_cohorts |-> IF bridged
                           THEN Append(s.ramp_cohorts, << c.ramp_months, _bridge_hires >>)
                           ELSE s.ramp_cohorts,
          scheduled_anchor_hires |->
              IF effective_dec_fte < target_fte
              THEN DictPut(s.scheduled_anchor_hires, year, already_scheduled + new_hires)
              ELSE s.scheduled_anchor_hires,
          hire_events  |->
              IF effective_dec_fte < target_fte
              THEN _log_hire(events1, m, c.flu_anchor_month, year, new_hires,
                             "winter_ramp", lead_months(c), c)
              ELSE events1,
          anchor_target |-> target_fte,
          target_fte   |-> paid_fte ]

\* demand the look-ahead sizes the anchor cohort for: the peak of the flu season.
\* The look-ahead calls compute_demand without a shock.
FluPeakDemand(m, months_to_anchor, c) ==
    MaxSeq([k \in 1..4 |-> compute_demand(m + months_to_anchor + k - 1, c, 0)[1]], 0)

\* the headcount that survives attrition up to each bridge month with enough left
BridgeMinFte(m, months_to_anchor, c) ==
    MaxSeq([off \in 1..(months_to_anchor - 1) |->
               (compute_demand(m + off, c, 0)[4] * 10000)
                   \div PowBp(10000 - monthly_attrition_rate(c), off)], 0)

\* what paid_fte has to be on the first day of the anchor month
AnchorTarget(band_winter, months_to_flu_end, winter_fte, c) ==
    Max2(Max2(band_winter
                + (band_winter * monthly_attrition_rate(c) * months_to_flu_end)
                    \div 10000,
              winter_fte),
         c.min_coverage_fte)

\* the look-ahead of an active pre-flu month
PreFlu(s, m, winter_fte, c) ==
    LET cal_month == (m % 12) + 1
        months_to_anchor  == (c.flu_anchor_month - cal_month) % 12
        months_to_flu_end == months_to_anchor + 4 - 1
    IN  PreFluSchedule(s, m, c,
            AnchorTarget(fte_for_load_target(FluPeakDemand(m, months_to_anchor, c),
                                             c.load_winter_target, c),
                         months_to_flu_end, winter_fte, c),
            BridgeMinFte(m, months_to_anchor, c))

\* target_fte and summer_floor_fte of a month in load-band mode; t0 is the target
\* the flu / pre-flu branch has set
BandTarget(t0, visits_per_day, cal_month, base_fte, c) ==
    LET in_flu     == cal_month \in flu_months(c)
        in_pre_flu == cal_month \in pre_flu_months(c)
        in_summer  == cal_month \in summer_months
        floor_fte  == fte_for_load_target(visits_per_day, c.load_band_hi, c)
        summer_floor_fte == Max2(c.min_coverage_fte,
                                 MulM(floor_fte, c.summer_shed_floor_pct))
        mid_load   == (c.load_band_lo + c.load_band_hi) \div 2
        band_mid   == fte_for_load_target(visits_per_day, mid_load, c)
    IN  [ summer_floor_fte |-> summer_floor_fte,
          target_fte |->
              IF ~(in_flu \/ in_pre_flu \/ in_summer)
              THEN Max2(Max2(band_mid, base_fte), c.min_coverage_fte)
              ELSE IF in_summer THEN summer_floor_fte
              ELSE t0 ]

\* Hire with the unrounded size added to the headcount
HireAddsRaw(h, m, raw_hires, mode, c) ==
    LET cal_month == (m % 12) + 1
        year      == (m \div 12) + 1
        new_hires == _round_up_fte(raw_hires)
    IN  [ paid_fte     |-> h.paid_fte + raw_hires,
          ramp_cohorts |-> Append(h.ramp_cohorts, << c.ramp_months, new_hires >>),
          hire_events  |-> _log_hire(h.hire_events, m, cal_month, year, new_hires,
                                     mode, lead_months(c), c),
          deferred_fte |-> 0,
          hiring_mode  |-> mode ]

\* a hire of the hiring-decision block: headcount, cohort, log entry, mode of the month
Hire(h, m, raw_hires, mode, c) ==
    LET cal_month == (m % 12) + 1
        year      == (m \div 12) + 1
        new_hires == _round_up_fte(raw_hires)
    IN  [ paid_fte     |-> h.paid_fte + new_hires,
          ramp_cohorts |-> Append(h.ramp_cohorts, << c.ramp_months, new_hires >>),
          hire_events  |-> _log_hire(h.hire_events, m, cal_month, year, new_hires,
                                     mode, lead_months(c), c),
          deferred_fte |-> 0,
          hiring_mode  |-> mode ]

\* HireMode with another label for a backfill
HireModeBackfill(raw_hires, attrition_events, in_active_pre_flu) ==
    IF in_active_pre_flu THEN "winter_ramp"
    ELSE IF raw_hires * 100 > attrition_events * 105 THEN "growth"
    ELSE "backfill"

\* the mode of a hire made because paid_fte is below target
HireMode(raw_hires, attrition_events, in_active_pre_flu) ==
    IF in_active_pre_flu THEN "winter_ramp"
    ELSE IF raw_hires * 100 > attrition_events * 105 THEN "growth"
    ELSE "attrition_replace"

\* the hiring-decision block; h holds paid_fte, ramp_cohorts, hire_events, deferred_fte
HiringDecision(h, m, _pre_flu_handled, target_fte, summer_floor_fte, attrition_events, c) ==
    LET cal_month == (m % 12) + 1
        in_flu    == cal_month \in flu_months(c)
        in_summer == cal_month \in summer_months
        in_active_pre_flu == cal_month \in active_pre_flu(c)
        keep(mode) == [ paid_fte     |-> h.paid_fte,
                        ramp_cohorts |-> h.ramp_cohorts,
                        hire_events  |-> h.hire_events,
                        deferred_fte |-> h.deferred_fte,
                        hiring_mode  |-> mode ]
    IN  IF _pre_flu_handled THEN keep("winter_ramp")
        ELSE IF in_summer
        THEN IF h.paid_fte < summer_floor_fte
             THEN [ Hire(h, m, summer_floor_fte - h.paid_fte, "floor_protect", c)
                      EXCEPT !.deferred_fte = h.deferred_fte ]
             ELSE keep("shed_pause")
        ELSE IF h.paid_fte < target_fte
        THEN LET _flu_emergency ==
                     in_flu /\ h.paid_fte * 100 < c.min_coverage_fte * 105
             IN  IF in_flu /\ ~_flu_emergency
                 THEN [ keep("deferred") EXCEPT
                          !.deferred_fte = Max2(h.deferred_fte, target_fte - h.paid_fte) ]
                 ELSE LET raw_hires == Max2(target_fte - h.paid_fte, h.deferred_fte)
                      IN  Hire(h, m, raw_hires,
                               HireMode(raw_hires, attrition_events, in_active_pre_flu), c)
        ELSE IF h.paid_fte * 100 > target_fte * 105 /\ ~in_flu
        THEN IF h.deferred_fte > 0 /\ ~in_flu
             THEN Hire(h, m, h.deferred_fte, "growth", c)
             ELSE keep("shed_passive")
        ELSE IF h.deferred_fte > 0 /\ ~in_flu
             THEN Hire(h, m, h.deferred_fte, "growth", c)
             ELSE keep("maintain")

\* turnover cost of the month, inflated by 1.3 in a Yellow or Red month
TurnoverCost(turnover_events, zone, c) ==
    IF zone \in {"Yellow", "Red"}
    THEN (MulM(turnover_events, turnover_replacement_cost_per_provider(c)) * 13) \div 10
    ELSE MulM(turnover_events, turnover_replacement_cost_per_provider(c))

\* throughput captured in a zone, in percent
ThroughputFactor(zone) ==
    IF zone = "Green" THEN 100 ELSE IF zone = "Yellow" THEN 95 ELSE 85

\* EbitdaMonth with the fixed overhead left out
EbitdaMonthNoFixed(revenue_captured, perm_cost, support_cost, flex_cost, turnover_cost, burnout_pen, fixed_cost) ==
    revenue_captured - (perm_cost + support_cost) - flex_cost - turnover_cost
        - burnout_pen

\* the EBITDA contribution of a month from its components
EbitdaMonth(revenue_captured, perm_cost, support_cost, flex_cost, turnover_cost, burnout_pen, fixed_cost) ==
    revenue_captured - (perm_cost + support_cost) - flex_cost - turnover_cost
        - burnout_pen - fixed_cost

\* the last part of the loop body: costs, revenue, EBITDA, the MonthResult
MonthCosts(s, m, c, demand, att, scheduled, summer_floor_fte, hd, effective_fte, providers_on_floor, pts_per_prov, zone, overload_pts) ==
    LET cal_month == (m % 12) + 1
        budget       == c.budgeted_patients_per_provider_per_day
        fte_per_slot == fte_per_shift_slot(c)
        operating_days_mo == (c.operating_days_per_week * 5200) \div 12
        flex_fte     == IF overload_pts > 0 /\ providers_on_floor > 0
                        THEN MulM((overload_pts * providers_on_floor) \div budget,
                                  fte_per_slot)
                        ELSE 0
        perm_cost     == MulM(hd.paid_fte, c.annual_provider_cost_perm \div 12)
        flex_cost     == MulM(flex_fte, c.annual_provider_cost_flex \div 12)
        support_cost  == monthly_support_cost(c.support, providers_on_floor,
                                              c.shift_hours, c.operating_days_per_week)
        burnout_pen   == BurnoutPen(overload_pts, c)
        overstaff_pen == MulM(MulM(Max2(0, providers_on_floor - demand[3]),
                                   fte_per_slot),
                              c.overstaff_penalty_per_fte_month)
        visits_demanded  == (demand[1] * operating_days_mo) \div 100000
        visits_captured  == (visits_demanded * ThroughputFactor(zone)) \div 100
        revenue_captured == visits_captured * c.net_revenue_per_visit
        lost_revenue     == (visits_demanded - visits_captured) * c.net_revenue_per_visit
        turnover_cost    == TurnoverCost(att.attrition_events, zone, c)
        ebitda_month == EbitdaMonth(revenue_captured, perm_cost, support_cost,
                                    flex_cost, turnover_cost, burnout_pen,
                                    c.monthly_fixed_overhead)
        month_score  == perm_cost + flex_cost + support_cost + burnout_pen
                          + overstaff_pen + lost_revenue + turnover_cost
        result ==
            [ month |-> m + 1, calendar_month |-> cal_month, year |-> (m \div 12) + 1,
              quarter |-> MONTH_TO_QUARTER[cal_month] + 1,
              demand_visits_per_day      |-> demand[1],
              seasonal_multiplier        |-> demand[2],
              demand_providers_per_shift |-> demand[3],
              demand_fte_required        |-> Max2(demand[4], c.min_coverage_fte),
              paid_fte |-> hd.paid_fte, effective_fte |-> effective_fte,
              flex_fte |-> flex_fte,
              providers_on_floor |-> providers_on_floor,
              shift_coverage_gap |-> demand[3] - providers_on_floor,
              patients_per_provider_per_shift |-> pts_per_prov,
              zone |-> zone, hiring_mode |-> hd.hiring_mode,
              load_band_lo |-> c.load_band_lo, load_band_hi |-> c.load_band_hi,
              within_band  |-> c.load_band_lo <= pts_per_prov
                                 /\ pts_per_prov <= c.load_band_hi,
              effective_attrition_rate |-> att.effective_monthly_attrition,
              overload_attrition_delta |-> att.overload_attrition_delta,
              permanent_cost |-> perm_cost, flex_cost |-> flex_cost,
              support_cost |-> support_cost, burnout_penalty |-> burnout_pen,
              overstaff_penalty |-> overstaff_pen, lost_revenue |-> lost_revenue,
              turnover_events |-> att.attrition_events, turnover_cost |-> turnover_cost,
              cumulative_score |-> s.total_score + month_score,
              revenue_captured |-> revenue_captured,
              visits_captured |-> visits_captured,
              throughput_factor |-> ThroughputFactor(zone),
              ebitda_contribution |-> ebitda_month,
              cumulative_ebitda |-> s.total_ebitda + ebitda_month ]
    IN  [ paid_fte               |-> hd.paid_fte,
          ramp_cohorts           |-> Surviving(hd.ramp_cohorts),
          deferred_fte           |-> hd.deferred_fte,
          scheduled_anchor_hires |-> scheduled,
          summer_floor_fte       |-> summer_floor_fte,
          months                 |-> Append(s.months, result),
          hire_events            |-> hd.hire_events,
          total_score            |-> s.total_score + month_score,
          total_swb_cost         |-> s.total_swb_cost + perm_cost + support_cost,
          total_simulated_visits |-> s.total_simulated_visits + visits_demanded,
          total_ebitda           |-> s.total_ebitda + ebitda_month,
          exc                    |-> "none" ]

\* ramp drag, providers on the floor, load and zone of the month
MonthWorkload(s, m, c, demand, att, scheduled, summer_floor_fte, hd, effective_fte, providers_on_floor, pts_per_prov) ==
    MonthCosts(s, m, c, demand, att, scheduled, summer_floor_fte, hd,
               effective_fte, providers_on_floor, pts_per_prov,
               Zone(pts_per_prov, c),
               Max2(0, pts_per_prov - (c.budgeted_patients_per_provider_per_day
                                         + c.yellow_threshold_above)))

\* effective_fte = max(0, paid_fte - ramp_drag)
EffectiveFte(paid_fte, ramp_drag) == Max2(0, paid_fte - ramp_drag)

ProvidersOnFloor(effective_fte, c) ==
    IF fte_per_shift_slot(c) > 0 THEN DivM(effective_fte, fte_per_shift_slot(c)) ELSE 0

MonthRamp(s, m, c, demand, att, scheduled, summer_floor_fte, hd, effective_fte) ==
    MonthWorkload(s, m, c, demand, att, scheduled, summer_floor_fte, hd,
                  effective_fte, ProvidersOnFloor(effective_fte, c),
                  PtsPerProv(demand[1], ProvidersOnFloor(effective_fte, c)))

\* the hiring decision is made: the ramp drag of the cohorts, the new hires' included
MonthDecided(s, m, c, demand, att, scheduled, summer_floor_fte, hd) ==
    MonthRamp(s, m, c, demand, att, scheduled, summer_floor_fte, hd,
              EffectiveFte(hd.paid_fte, RampDrag(hd.ramp_cohorts, c)))

\* attrition is applied, scheduled anchor hires start, the hiring decision is made
MonthHiring(s, m, c, demand, pf, bt, att, paid_att) ==
    LET cal_month == (m % 12) + 1
        year      == (m \div 12) + 1
        starts == cal_month = c.flu_anchor_month
                    /\ year \in DOMAIN pf.scheduled_anchor_hires
    IN  MonthDecided(s, m, c, demand, att,
            IF starts THEN DictDrop(pf.scheduled_anchor_hires, year)
            ELSE pf.scheduled_anchor_hires,
            bt.summer_floor_fte,
            HiringDecision([ paid_fte     |->
                                 IF starts
                                 THEN paid_att + pf.scheduled_anchor_hires[year]
                                 ELSE paid_att,
                             ramp_cohorts |-> pf.ramp_cohorts,
                             hire_events  |-> pf.hire_events,
                             deferred_fte |-> s.deferred_fte ],
                           m, cal_month \in active_pre_flu(c), bt.target_fte,
                           bt.summer_floor_fte, att.attrition_events, c))

\* the targets are set: attrition is estimated from the headcount carried over
MonthAttrition(s, m, c, demand, pf, bt, att) ==
    MonthHiring(s, m, c, demand, pf, bt, att,
                AfterAttrition(pf.paid_fte, att.attrition_events, c))

MonthTargets(s, m, base_fte, c, demand, pf) ==
    MonthAttrition(s, m, c, demand, pf,
                   BandTarget(pf.target_fte, demand[1], (m % 12) + 1, base_fte, c),
                   Attrition(pf.paid_fte, pf.ramp_cohorts, demand[1], c))

\* the target of a month outside the look-ahead window, before the season rules
WinterTarget(visits_per_day, winter_fte, c) ==
    Max2(Max2(fte_for_load_target(visits_per_day, c.load_winter_target, c),
              winter_fte),
         c.min_coverage_fte)

MonthDemand(s, m, base_fte, winter_fte, c, demand) ==
    MonthTargets(s, m, base_fte, c, demand,
        IF ((m % 12) + 1) \in active_pre_flu(c)
        THEN PreFlu(s, m, winter_fte, c)
        ELSE [ paid_fte     |-> s.paid_fte,
               ramp_cohorts |-> s.ramp_cohorts,
               scheduled_anchor_hires |-> s.scheduled_anchor_hires,
               hire_events  |-> s.hire_events,
               anchor_target |-> 0,
               target_fte   |-> WinterTarget(demand[1], winter_fte, c) ])

\* target_fte of a month in legacy mode: the policy's own numbers
LegacyTarget(cal_month, base_fte, winter_fte, c) ==
    IF cal_month \in flu_months(c) THEN winter_fte
    ELSE IF cal_month \in summer_months THEN MulM(base_fte, c.summer_shed_floor_pct)
    ELSE base_fte

\* one pass of the loop body of simulate_policy for month index m (0-based).
\* In legacy mode the hiring-decision block reads _pre_flu_handled, which only the
\* load-band branch assigns: the read raises UnboundLocalError.
MonthBody(s, m, base_fte, winter_fte, c, volume_shocks) ==
    IF ~c.use_load_band
    THEN [ s EXCEPT !.exc = "UnboundLocalError" ]
    ELSE MonthDemand(s, m, base_fte, winter_fte, c,
                     compute_demand(m, c, DictGet(volume_shocks, m + 1)))

RECURSIVE RunMonths(_, _, _, _, _, _, _)
\* the month loop from month index m on, stopping at an exception
RunMonths(s, m, horizon_months, base_fte, winter_fte, c, volume_shocks) ==
    IF m >= horizon_months \/ s.exc # "none" THEN s
    ELSE RunMonths(MonthBody(s, m, base_fte, winter_fte, c, volume_shocks),
                   m + 1, horizon_months, base_fte, winter_fte, c, volume_shocks)

(***************************************************************************)
(* consolidate_hire_events                                                 *)
(***************************************************************************)
Abs(x) == IF x < 0 THEN -x ELSE x

\* whether hire i finds another hire, not yet used, to be absorbed into
Absorbs(hire_events, used, i) ==
    \E j \in DOMAIN hire_events :
        /\ j \notin used /\ j # i
        /\ hire_events[j].year = hire_events[i].year
        /\ Abs(hire_events[j].calendar_month - hire_events[i].calendar_month) <= 2
        /\ hire_events[j].fte_hired >= hire_events[i].fte_hired

RECURSIVE ConsolidateFromMerging(_, _, _, _, _, _)
\* ConsolidateFrom dropping an absorbed hire from the list
ConsolidateFromMerging(hire_events, small_threshold, peak_months, i, used, result) ==
    IF i > Len(hire_events) THEN result
    ELSE IF /\ hire_events[i].fte_hired <= small_threshold
            /\ hire_events[i].calendar_month \in peak_months
            /\ Absorbs(hire_events, used, i)
         THEN ConsolidateFromMerging(hire_events, small_threshold, peak_months,
                                     i + 1, used \cup {i}, result)
         ELSE ConsolidateFromMerging(hire_events, small_threshold, peak_months,
                                     i + 1, used \cup {i},
                                     Append(result, hire_events[i]))

RECURSIVE ConsolidateFrom(_, _, _, _, _, _)
\* the loop over the events from index i on; used is the set of indices marked used
ConsolidateFrom(hire_events, small_threshold, peak_months, i, used, result) ==
    IF i > Len(hire_events) THEN result
    ELSE LET h == hire_events[i]
             out == IF /\ h.fte_hired <= small_threshold
                       /\ h.calendar_month \in peak_months
                       /\ Absorbs(hire_events, used, i)
                    THEN [ h EXCEPT !.mode = "per_diem",
                                    !.fte_hired = _round_up_fte(h.fte_hired) ]
                    ELSE h
         IN  IF i \in used
             THEN ConsolidateFrom(hire_events, small_threshold, peak_months,
                                  i + 1, used, result)
             ELSE ConsolidateFrom(hire_events, small_threshold, peak_months,
                                  i + 1, used \cup {i}, Append(result, out))

consolidate_hire_events(hire_events, small_threshold, peak_months) ==
    IF hire_events = << >> THEN hire_events
    ELSE ConsolidateFrom(hire_events, small_threshold, peak_months, 1, {}, << >>)

(***************************************************************************)
(* simulate_policy: the summary after the loop and the PolicyResult.       *)
(***************************************************************************)
\* None where the value is otherwise a dict
None == << >>

\* np.mean of a list: "nan" for the empty list
Mean(q) == IF q = << >> THEN "nan" ELSE SumSeq(q) \div Len(q)

\* the fixed-overhead line of the waterfall
TotalFixed(c) == c.monthly_fixed_overhead * 36

\* the statements after the loop; a horizon of no months divides by len(months) = 0
Finish(s, base_fte, winter_fte, c) ==
    LET months == s.months
        Field(q, f(_)) == [i \in DOMAIN q |-> f(q[i])]
        Count(q, P(_)) == Cardinality({i \in DOMAIN q : P(q[i])})
        operating_days_mo == (c.operating_days_per_week * 5200) \div 12
        total_captured_visits == SumSeq(Field(months, LAMBDA mo : mo.visits_captured))
        annual_swb_cost == s.total_swb_cost \div 3
        annual_visits   == total_captured_visits \div 3
        annual_swb      == IF annual_visits > 0
                           THEN (annual_swb_cost * 100) \div annual_visits ELSE 0
        swb_violation   == annual_swb > c.swb_target_per_visit * 100
        total_score     == IF swb_violation
                           THEN s.total_score + c.swb_violation_penalty
                           ELSE s.total_score
        total_revenue_captured == SumSeq(Field(months, LAMBDA mo : mo.revenue_captured))
        total_swb_3yr      == SumSeq(Field(months,
                                  LAMBDA mo : mo.permanent_cost + mo.support_cost))
        total_flex_3yr     == SumSeq(Field(months, LAMBDA mo : mo.flex_cost))
        total_turnover_3yr == SumSeq(Field(months, LAMBDA mo : mo.turnover_cost))
        total_burnout_3yr  == SumSeq(Field(months, LAMBDA mo : mo.burnout_penalty))
        total_fixed_3yr    == TotalFixed(c)
        total_visits_demanded ==
            SumSeq(Field(months,
                LAMBDA mo : (mo.demand_visits_per_day * operating_days_mo) \div 100000))
        capture_rate == IF total_visits_demanded > 0
                        THEN DivM(total_captured_visits, total_visits_demanded)
                        ELSE 1000
        y1q(q) == SelectSeq(months, LAMBDA mo : mo.year = 1 /\ mo.quarter = q)
        summary ==
            [ total_score              |-> total_score,
              red_months               |-> Count(months, LAMBDA mo : mo.zone = "Red"),
              yellow_months            |-> Count(months, LAMBDA mo : mo.zone = "Yellow"),
              green_months             |-> Count(months, LAMBDA mo : mo.zone = "Green"),
              avg_flex_fte             |-> Mean(Field(months, LAMBDA mo : mo.flex_fte)),
              total_turnover_events    |->
                  SumSeq(Field(months, LAMBDA mo : mo.turnover_events)),
              annual_swb_per_visit     |-> annual_swb,
              annual_visits            |-> annual_visits,
              swb_violation            |-> swb_violation,
              req_post_month           |-> req_post_month(c),
              total_permanent_cost     |->
                  SumSeq(Field(months, LAMBDA mo : mo.permanent_cost)),
              total_flex_cost          |-> total_flex_3yr,
              total_support_cost       |->
                  SumSeq(Field(months, LAMBDA mo : mo.support_cost)),
              total_lost_revenue       |->
                  SumSeq(Field(months, LAMBDA mo : mo.lost_revenue)),
              total_turnover_cost      |-> total_turnover_3yr,
              total_burnout_penalty    |-> total_burnout_3yr,
              total_overstaff_penalty  |->
                  SumSeq(Field(months, LAMBDA mo : mo.overstaff_penalty)),
              total_overload_attrition |->
                  SumSeq(Field(months, LAMBDA mo : mo.overload_attrition_delta)),
              pct_months_in_band       |->
                  (Count(months, LAMBDA mo : mo.within_band) * 100000) \div Len(months),
              total_ebitda_3yr         |-> s.total_ebitda,
              total_revenue_captured   |-> total_revenue_captured,
              total_swb_3yr            |-> total_swb_3yr,
              total_flex_3yr           |-> total_flex_3yr,
              total_turnover_3yr       |-> total_turnover_3yr,
              total_burnout_3yr        |-> total_burnout_3yr,
              total_fixed_3yr          |-> total_fixed_3yr,
              total_visits_captured    |-> total_captured_visits,
              total_visits_demanded    |-> total_visits_demanded,
              visit_capture_rate       |-> capture_rate,
              q_avg_visits             |->
                  [q \in 1..4 |-> Mean(Field(y1q(q),
                                     LAMBDA mo : mo.demand_visits_per_day))],
              q_avg_fte_required       |->
                  [q \in 1..4 |-> Mean(Field(y1q(q),
                                     LAMBDA mo : mo.demand_fte_required))] ]
        ebitda_summary ==
            [ revenue      |-> total_revenue_captured,
              swb          |-> total_swb_3yr,
              flex         |-> total_flex_3yr,
              turnover     |-> total_turnover_3yr,
              burnout      |-> total_burnout_3yr,
              fixed        |-> total_fixed_3yr,
              ebitda       |-> s.total_ebitda,
              capture_rate |-> capture_rate ]
    IN  IF s.exc # "none" THEN [ exc |-> s.exc ]
        ELSE IF Len(months) = 0 THEN [ exc |-> "ZeroDivisionError" ]
        ELSE [ exc                  |-> "none",
               base_fte             |-> base_fte,
               winter_fte           |-> winter_fte,
               req_post_month       |-> req_post_month(c),
               months               |-> months,
               hire_events          |->
                   consolidate_hire_events(s.hire_events, 200, flu_months(c)),
               total_score          |-> total_score,
               annual_swb_per_visit |-> annual_swb,
               swb_violation        |-> swb_violation,
               summary              |-> summary,
               ebitda_summary       |-> ebitda_summary,
               marginal_analysis    |-> None ]

\* simulate_policy as a function of its arguments
simulate_policy(base_fte, winter_fte, c, horizon_months, volume_shocks) ==
    Finish(RunMonths(InitLocals(base_fte, winter_fte, c), 0, horizon_months,
                     base_fte, winter_fte, c, volume_shocks),
           base_fte, winter_fte, c)

(***************************************************************************)
(* simulate_stress                                                         *)
(***************************************************************************)
\* StressShocks with the window counted from month index 0
StressShocksFromZero(shock_start_month, shock_duration_months, shock_magnitude) ==
    [mm \in (shock_start_month - 1)..(shock_start_month + shock_duration_months - 2)
        |-> shock_magnitude]

\* the shocks dict: shock_magnitude on every month of the window
StressShocks(shock_start_month, shock_duration_months, shock_magnitude) ==
    [mm \in shock_start_month..(shock_start_month + shock_duration_months - 1)
        |-> shock_magnitude]

(***************************************************************************)
(* compare_marginal_fte                                                    *)
(***************************************************************************)
\* -annual_cost_delta / (annual_savings / 12), in thousandths of a month
PaybackMonths(annual_cost_delta, annual_savings) ==
    IF annual_savings > 0
    THEN ((-annual_cost_delta * 12) \div annual_savings) * 1000
           + (((-annual_cost_delta * 12) % annual_savings) * 1000) \div annual_savings
    ELSE "inf"

Yr1Load(pol) ==
    LET yr1 == SelectSeq(pol.months, LAMBDA mo : mo.year = 1)
    IN  [i \in DOMAIN yr1 |-> yr1[i].patients_per_provider_per_shift]

\* the dict returned, given the re-simulated policy
MarginalDict(pol, pol_plus, delta_fte, annual_cost_delta, annual_savings) ==
    [ delta_fte          |-> delta_fte,
      annual_cost_delta  |-> annual_cost_delta,
      annual_savings     |-> annual_savings,
      net_annual         |-> annual_savings - annual_cost_delta,
      payback_months     |-> PaybackMonths(annual_cost_delta, annual_savings),
      red_months_saved   |-> pol.summary.red_months - pol_plus.summary.red_months,
      yellow_months_saved |->
          pol.summary.yellow_months - pol_plus.summary.yellow_months,
      swb_delta          |->
          pol_plus.summary.annual_swb_per_visit - pol.summary.annual_swb_per_visit,
      attrition_saved    |-> pol.summary.total_overload_attrition
                               - pol_plus.summary.total_overload_attrition,
      pct_months_in_band_delta |->
          pol_plus.summary.pct_months_in_band - pol.summary.pct_months_in_band,
      yr1_load_base      |-> Yr1Load(pol),
      yr1_load_plus      |-> Yr1Load(pol_plus),
      score_delta        |-> pol_plus.summary.total_score - pol.summary.total_score,
      pol_plus           |-> pol_plus ]

MarginalOf(pol, pol_plus, delta_fte) ==
    MarginalDict(pol, pol_plus, delta_fte,
        (pol_plus.summary.total_permanent_cost - pol.summary.total_permanent_cost)
            \div 3
          + (pol_plus.summary.total_flex_cost - pol.summary.total_flex_cost) \div 3,
        (pol.summary.total_burnout_penalty - pol_plus.summary.total_burnout_penalty)
            \div 3
          + (pol.summary.total_lost_revenue - pol_plus.summary.total_lost_revenue)
              \div 3
          + (pol.summary.total_turnover_cost - pol_plus.summary.total_turnover_cost)
              \div 3)

\* horizon_months of simulate_policy and of optimize when not given
DefaultHorizon == 36

\* compare_marginal_fte: the re-simulation runs the default horizon
compare_marginal_fte(pol, c, delta_fte) ==
    MarginalOf(pol,
               simulate_policy(pol.base_fte + delta_fte, pol.winter_fte + delta_fte,
                               c, DefaultHorizon, << >>),
               delta_fte)

(***************************************************************************)
(* optimize                                                                *)
(***************************************************************************)
\* math.ceil(x * 4) / 4
CeilQuarter(x) == ((x + 249) \div 250) * 250

\* round(x, 2): to the nearest hundredth, a tie to the even hundredth
Round2(x) ==
    LET r == x % 10
    IN  IF r < 5 THEN x - r
        ELSE IF r > 5 THEN x - r + 10
        ELSE IF ((x - r) \div 10) % 2 = 0 THEN x - r ELSE x - r + 10

\* np.arange(start, stop, step) for a positive step
Arange(start, stop, step) ==
    [i \in 1..(IF stop > start THEN (stop - start + step - 1) \div step ELSE 0)
        |-> start + (i - 1) * step]

RECURSIVE Flatten(_)
Flatten(qq) == IF qq = << >> THEN << >> ELSE Head(qq) \o Flatten(Tail(qq))

\* the search floor: the baseline FTE of the shift coverage model
_baseline_fte(c) ==
    CeilQuarter(MulM(DivM(c.base_visits_per_day,
                          c.budgeted_patients_per_provider_per_day),
                     fte_per_shift_slot(c)))

b_vals(c, b_range) ==
    Arange(Max2(b_range[1], _baseline_fte(c)), b_range[2] + b_range[3], b_range[3])

w_vals(b, w_range_above) ==
    Arange(b, b + w_range_above[2] + w_range_above[3], w_range_above[3])

\* the (b, w) pairs in the order the two nested loops visit them
GridCells(c, b_range, w_range_above) ==
    Flatten([i \in DOMAIN b_vals(c, b_range) |->
                [j \in DOMAIN w_vals(b_vals(c, b_range)[i], w_range_above) |->
                    << Round2(b_vals(c, b_range)[i]),
                       Round2(w_vals(b_vals(c, b_range)[i], w_range_above)[j]) >>]])

\* the locals of optimize before the loops; best_policy is a reference into
\* all_policies (0 is None), best_ebitda is << >> for float("-inf")
InitOpt(c, b_range, w_range_above) ==
    [ cells        |-> GridCells(c, b_range, w_range_above),
      all_policies |-> << >>,
      best_policy  |-> 0,
      best_ebitda  |-> << >>,
      returned     |-> FALSE ]

\* the figure the search maximises
PolicyEbitda(p) ==
    IF DOMAIN p.ebitda_summary # {} THEN p.ebitda_summary.ebitda ELSE -p.total_score

\* BestStep letting a later policy of equal EBITDA replace the best
BestStepLastWins(best, ebitda, idx) ==
    IF best[2] = << >> \/ ebitda >= best[2][1] THEN << idx, << ebitda >> >> ELSE best

\* BestStep keeping the smaller figure
BestStepMin(best, ebitda, idx) ==
    IF best[2] = << >> \/ ebitda < best[2][1] THEN << idx, << ebitda >> >> ELSE best

\* the comparison of the inner loop: best is <<best_policy, best_ebitda>>, idx the
\* place of p in all_policies
BestStep(best, ebitda, idx) ==
    IF best[2] = << >> \/ ebitda > best[2][1] THEN << idx, << ebitda >> >> ELSE best

RECURSIVE SelectFrom(_, _, _, _)
\* the selection the loop makes when it meets the policies in the given order
SelectFrom(all_policies, order, i, best) ==
    IF i > Len(order) THEN best
    ELSE SelectFrom(all_policies, order, i + 1,
                    BestStep(best, PolicyEbitda(all_policies[order[i]]), order[i]))

\* the displayed base/winter FTE derived from the best policy's year-1 demand
Rederive(pol, c) ==
    LET _flu_mos  == SelectSeq(pol.months,
                        LAMBDA mo : mo.calendar_month \in flu_months(c) /\ mo.year = 1)
        _base_mos == SelectSeq(pol.months,
                        LAMBDA mo : mo.calendar_month = 4 /\ mo.year = 1)
        _winter_fte == CeilQuarter(MaxSeq([i \in DOMAIN _flu_mos |->
                                              _flu_mos[i].demand_fte_required], 0))
        _base_fte   == CeilQuarter(MaxSeq([i \in DOMAIN _base_mos |->
                                              _base_mos[i].demand_fte_required], 0))
    IN  IF c.use_load_band /\ _flu_mos # << >> /\ _base_mos # << >>
        THEN [ pol EXCEPT !.base_fte = _base_fte,
                          !.winter_fte = Max2(_winter_fte, _base_fte) ]
        ELSE pol

\* the best policy as returned: re-derived, with its marginal analysis attached
Returned(pol, c) ==
    [ pol EXCEPT !.marginal_analysis = compare_marginal_fte(pol, c, 500) ]

(***************************************************************************)
(* The inputs explored.                                                    *)
(***************************************************************************)
ShortHorizon   == 15      \* a run that ends inside the flu season
MaxShockStart  == 13      \* latest first month of a stress window
MaxShockLen    == 3       \* longest stress window

RampConfig ==
    [ DefaultConfig EXCEPT !.ramp_months = 3,
                           !.ramp_productivity = << 400, 700, 900 >>,
                           !.monthly_fixed_overhead = 5000 ]

\* a small clinic: the demand-derived seed headcount is below the coverage floor
SmallConfig ==
    [ DefaultConfig EXCEPT !.base_visits_per_day = 20000,
                           !.annual_growth_pct = 0 ]

\* a lean band: the targets leave the workload above budget
LeanConfig ==
    [ DefaultConfig EXCEPT !.load_band_lo = 38000, !.load_band_hi = 46000,
                           !.load_winter_target = 44000,
                           !.ramp_months = 2,
                           !.ramp_productivity = << 0, 500 >> ]

\* flu season anchored in February: the look-ahead months are Nov, Dec, Jan
FebAnchorConfig == [ DefaultConfig EXCEPT !.flu_anchor_month = 2 ]

\* nobody can be put on the floor: no operating days
ClosedConfig ==
    [ DefaultConfig EXCEPT !.operating_days_per_week = 0,
                           !.burnout_pct_per_red_month = 0,
                           !.annual_growth_pct = 0 ]

LegacyConfig == [ DefaultConfig EXCEPT !.use_load_band = FALSE ]

\* no seasonal swing, the peak factor of the dataclass (1.10)
FlatConfig == [ DefaultConfig EXCEPT !.quarterly_volume_impact = << 0, 0, 0, 0 >> ]

\* no seasonal swing and the peak factor the dashboard passes (1.0)
BaselineConfig == [ FlatConfig EXCEPT !.peak_factor = 1000 ]

\* flu season anchored in June, so that January is an ordinary pre-season month in
\* which a hire is made at once; the band lies above the budget
LateAnchorConfig ==
    [ DefaultConfig EXCEPT !.flu_anchor_month = 6,
                           !.load_band_lo = 36000, !.load_band_hi = 44000,
                           !.load_winter_target = 42000 ]

\* flu season anchored in March: it ends in June and the first month after it, July,
\* is a summer month
MarchAnchorConfig == [ DefaultConfig EXCEPT !.flu_anchor_month = 3 ]

\* flu season from April to July, so that July is a flu month and a summer month; no
\* seasonal swing, one load target throughout and a summer floor at the full target
SummerFluConfig ==
    [ FlatConfig EXCEPT !.flu_anchor_month = 4,
                        !.summer_shed_floor_pct = 1000,
                        !.load_band_lo = 36000, !.load_band_hi = 36000,
                        !.load_winter_target = 36000 ]

\* a budget of no patients per provider: a zero throughput denominator
ZeroBudgetConfig ==
    [ DefaultConfig EXCEPT !.budgeted_patients_per_provider_per_day = 0 ]

\* no coverage floor and no load target: the run starts with nobody on the payroll
\* while the clinic is open and patients arrive
UnstaffedConfig ==
    [ DefaultConfig EXCEPT !.min_coverage_fte = 0,
                           !.load_band_lo = 0, !.load_band_hi = 0,
                           !.load_winter_target = 0,
                           !.burnout_pct_per_red_month = 0 ]

Configs == { DefaultConfig, RampConfig, SmallConfig, LeanConfig, FebAnchorConfig,
             ClosedConfig, LegacyConfig, FlatConfig, BaselineConfig,
             ZeroBudgetConfig, UnstaffedConfig, MarchAnchorConfig,
             SummerFluConfig }

\* (base_fte, winter_fte) pairs, the first below the coverage floor
Policies == { << 2000, 2000 >>, << 5250, 5250 >>, << 8000, 11000 >> }

\* a horizon of no months at all
NoHorizon == 0

Horizons == { NoHorizon, ShortHorizon, DefaultHorizon }

OptShortHorizon == 3      \* a search horizon that ends before the first April

\* the searches explored: configuration, b_range, w_range_above
Searches ==
    { << DefaultConfig, << 2000, 6000, 500 >>, << 0, 500, 500 >> >>,
      << DefaultConfig, << 2000, 3000, 500 >>, << 0, 500, 500 >> >>,
      << SmallConfig,   << 2000, 3000, 500 >>, << 0, 500, 500 >> >>,
      << RampConfig,    << 7000, 8000, 1000 >>, << 0, 3000, 1500 >> >>,
      << LeanConfig,    << 2000, 7000, 1000 >>, << 0, 1500, 1500 >> >>,
      << LegacyConfig,  << 2000, 6000, 500 >>, << 0, 500, 500 >> >>,
      << LateAnchorConfig, << 10000, 10000, 1000 >>, << 0, 2000, 2000 >> >>,
      << LateAnchorConfig, << 6000, 6000, 1000 >>, << 0, 0, 1000 >> >> }

OptHorizons == { OptShortHorizon, DefaultHorizon }

\* other values of (fte_fraction, shifts_per_day): a half-time contract, two shifts a day
OtherFractions == { << 500, 1 >>, << 900, 2 >> }

MaxEvents == 3            \* longest hire-event list given to consolidate_hire_events

\* the HireEvent _log_hire records for a hire of fte_hired in month index sim_m
EventOf(sim_m, fte_hired, mode) ==
    _log_hire(<< >>, sim_m, (sim_m % 12) + 1, (sim_m \div 12) + 1, fte_hired, mode,
              lead_months(DefaultConfig), DefaultConfig)[1]

\* hires in January, March and June of year 1 and January of year 2, of 0.1, 0.25
\* and 1.0 FTE
EventPool ==
    { EventOf(sim_m, fte_hired, "growth") :
        sim_m \in { 0, 2, 5, 12 }, fte_hired \in { 100, 250, 1000 } }

EventLists == UNION { [1..n -> EventPool] : n \in 0..MaxEvents }

\* small_threshold: the default 0.2, and 0.25
Thresholds == { 200, 250 }

MaxRawSteps == 66       \* raw hire sizes up to 3.3 FTE, in steps of 0.05

\* raw hire sizes: the multiples of 0.05 and their neighbours a thousandth away,
\* zero and a negative size among them
RawSizes == { k * 50 + d : k \in 0..MaxRawSteps, d \in { -1, 0, 1 } }

ShockStarts == { 1, 4, 7, MaxShockStart }
ShockLens   == { 1, MaxShockLen }
ShockMagnitudes == { 150 }

(***************************************************************************)
(* The state: one caller running simulate_policy, then either the same     *)
(* call again or simulate_stress on the returned policy.                   *)
(***************************************************************************)
VARIABLES
    pc,              \* "idle", "loop" (in the month loop), "returned", "raised"
    call,            \* the call in progress or last made: its name, and for
                     \* simulate_stress the window it was given
    cfg, base_fte, winter_fte, horizon_months, volume_shocks,   \* its arguments
    m,               \* the loop index
    loc,             \* the locals of simulate_policy
    result,          \* the PolicyResult of the last call that returned
    first,           \* the PolicyResult of the caller's first call
    opt,             \* the locals of optimize
    cons             \* a direct call of consolidate_hire_events: arguments and result

vars == << pc, call, cfg, base_fte, winter_fte, horizon_months, volume_shocks,
           m, loc, result, first, opt, cons >>

NoResult == [ exc |-> "no call" ]

Init ==
    /\ pc = "idle"
    /\ call = [ fn |-> "none" ]
    /\ cfg = DefaultConfig
    /\ base_fte = 0
    /\ winter_fte = 0
    /\ horizon_months = 0
    /\ volume_shocks = << >>
    /\ m = 0
    /\ loc = InitLocals(0, 0, DefaultConfig)
    /\ result = NoResult
    /\ first = NoResult
    /\ opt = InitOpt(DefaultConfig, << 0, 0, 1 >>, << 0, 0, 1 >>)
    /\ cons = [ hire_events |-> << >>, small_threshold |-> 200, peak_months |-> {},
                result |-> << >> ]

\* Enter with the loop state of the previous run left in place
EnterKeepsLocals(name, b, w, c, h, shocks) ==
    /\ call' = name
    /\ cfg' = c
    /\ base_fte' = b
    /\ winter_fte' = w
    /\ horizon_months' = h
    /\ volume_shocks' = shocks
    /\ m' = 0
    /\ loc' = [ InitLocals(b, w, c) EXCEPT
                  !.paid_fte = loc.paid_fte,
                  !.ramp_cohorts = loc.ramp_cohorts,
                  !.deferred_fte = loc.deferred_fte,
                  !.scheduled_anchor_hires = loc.scheduled_anchor_hires ]
    /\ pc' = IF InitLocals(b, w, c).exc = "none" THEN "loop" ELSE "raised"

\* entry of simulate_policy: the arguments are bound and the locals initialised
Enter(name, b, w, c, h, shocks) ==
    /\ call' = name
    /\ cfg' = c
    /\ base_fte' = b
    /\ winter_fte' = w
    /\ horizon_months' = h
    /\ volume_shocks' = shocks
    /\ m' = 0
    /\ loc' = InitLocals(b, w, c)
    /\ pc' = IF InitLocals(b, w, c).exc = "none" THEN "loop" ELSE "raised"

\* the caller's first call of simulate_policy
CallSimulate ==
    /\ pc = "idle"
    /\ \E c \in Configs, p \in Policies, h \in Horizons :
           Enter([ fn |-> "simulate_policy" ], p[1], p[2], c, h, << >>)
    /\ UNCHANGED << result, first, opt, cons >>

\* one pass of the month loop
SimMonth ==
    /\ pc = "loop"
    /\ m < horizon_months
    /\ LET n == MonthBody(loc, m, base_fte, winter_fte, cfg, volume_shocks)
       IN  /\ loc' = n
           /\ pc' = IF n.exc = "none" THEN "loop" ELSE "raised"
    /\ m' = m + 1
    /\ UNCHANGED << call, cfg, base_fte, winter_fte, horizon_months, volume_shocks,
                    result, first, opt, cons >>

\* the loop has ended: summary, consolidation, return
SimReturn ==
    /\ pc = "loop"
    /\ m >= horizon_months
    /\ LET r == Finish(loc, base_fte, winter_fte, cfg)
       IN  IF r.exc = "none"
           THEN result' = r /\ pc' = "returned"
           ELSE result' = result /\ pc' = "raised"
    /\ UNCHANGED << call, cfg, base_fte, winter_fte, horizon_months, volume_shocks,
                    m, loc, first, opt, cons >>

\* the caller repeats the call with identical arguments
CallAgain ==
    /\ pc = "returned"
    /\ call.fn = "simulate_policy"
    /\ first' = result
    /\ result' = NoResult
    /\ Enter([ fn |-> "simulate_policy again" ], base_fte, winter_fte, cfg, horizon_months,
             volume_shocks)
    /\ UNCHANGED << opt, cons >>

\* simulate_stress(pol, cfg, ...) on the policy the first call returned
CallStress ==
    /\ pc = "returned"
    /\ call.fn = "simulate_policy"
    /\ first' = result
    /\ result' = NoResult
    /\ \E s0 \in ShockStarts, len \in ShockLens, mag \in ShockMagnitudes :
           Enter([ fn |-> "simulate_stress", shock_start_month |-> s0,
                   shock_duration_months |-> len, shock_magnitude |-> mag ],
                 result.base_fte, result.winter_fte, cfg,
                 DefaultHorizon, StressShocks(s0, len, mag))
    /\ UNCHANGED << opt, cons >>

\* the caller repeats the call under a configuration that differs from the first in
\* fte_fraction or shifts_per_day only; call keeps the values of the first
CallWithFraction ==
    /\ pc = "returned"
    /\ call.fn = "simulate_policy"
    /\ first' = result
    /\ result' = NoResult
    /\ \E f \in OtherFractions :
           Enter([ fn |-> "simulate_policy other fraction",
                   fte_fraction |-> cfg.fte_fraction,
                   shifts_per_day |-> cfg.shifts_per_day ],
                 base_fte, winter_fte,
                 [ cfg EXCEPT !.fte_fraction = f[1], !.shifts_per_day = f[2] ],
                 horizon_months, volume_shocks)
    /\ UNCHANGED << opt, cons >>

\* a direct call of consolidate_hire_events with the peak months of the default
\* configuration
CallConsolidate ==
    /\ pc = "idle"
    /\ \E hire_events \in EventLists, small_threshold \in Thresholds :
           cons' = [ hire_events     |-> hire_events,
                     small_threshold |-> small_threshold,
                     peak_months     |-> flu_months(DefaultConfig),
                     result          |->
                         consolidate_hire_events(hire_events, small_threshold,
                                                 flu_months(DefaultConfig)) ]
    /\ call' = [ fn |-> "consolidate_hire_events" ]
    /\ pc' = "consolidated"
    /\ UNCHANGED << cfg, base_fte, winter_fte, horizon_months, volume_shocks,
                    m, loc, result, first, opt >>

\* a direct call of _round_up_fte
CallRoundUp ==
    /\ pc = "idle"
    /\ \E raw \in RawSizes :
           call' = [ fn |-> "_round_up_fte", raw |-> raw, fte |-> _round_up_fte(raw) ]
    /\ pc' = "rounded"
    /\ UNCHANGED << cfg, base_fte, winter_fte, horizon_months, volume_shocks,
                    m, loc, result, first, opt, cons >>

\* entry of optimize: the grid is laid out, nothing is evaluated yet
CallOptimize ==
    /\ pc = "idle"
    /\ \E s \in Searches, h \in OptHorizons :
           /\ cfg' = s[1]
           /\ horizon_months' = h
           /\ opt' = InitOpt(s[1], s[2], s[3])
    /\ call' = [ fn |-> "optimize" ]
    /\ pc' = "grid"
    /\ UNCHANGED << base_fte, winter_fte, volume_shocks, m, loc, result, first, cons >>

\* one pass of the inner loop: simulate the next cell, append, compare
OptCell ==
    /\ pc = "grid"
    /\ Len(opt.all_policies) < Len(opt.cells)
    /\ LET idx == Len(opt.all_policies) + 1
           p   == simulate_policy(opt.cells[idx][1], opt.cells[idx][2], cfg,
                                  horizon_months, << >>)
       IN  IF p.exc # "none"
           THEN opt' = opt /\ pc' = "raised"
           ELSE /\ opt' = [ opt EXCEPT
                              !.all_policies = Append(@, p),
                              !.best_policy  =
                                  BestStep(<< opt.best_policy, opt.best_ebitda >>,
                                           PolicyEbitda(p), idx)[1],
                              !.best_ebitda  =
                                  BestStep(<< opt.best_policy, opt.best_ebitda >>,
                                           PolicyEbitda(p), idx)[2] ]
                /\ pc' = "grid"
    /\ UNCHANGED << call, cfg, base_fte, winter_fte, horizon_months, volume_shocks,
                    m, loc, result, first, cons >>

\* the loops have ended: the best policy is re-derived in place (it is the object
\* all_policies holds), its marginal analysis attached, and both are returned
OptReturn ==
    /\ pc = "grid"
    /\ Len(opt.all_policies) = Len(opt.cells)
    /\ opt' = IF opt.best_policy = 0
              THEN [ opt EXCEPT !.returned = TRUE ]
              ELSE [ opt EXCEPT
                       !.returned = TRUE,
                       !.all_policies[opt.best_policy] =
                           Returned(Rederive(@, cfg), cfg) ]
    /\ pc' = "opt_returned"
    /\ UNCHANGED << call, cfg, base_fte, winter_fte, horizon_months, volume_shocks,
                    m, loc, result, first, cons >>

Next ==
    \/ CallSimulate \/ SimMonth \/ SimReturn \/ CallAgain \/ CallStress
    \/ CallWithFraction \/ CallConsolidate \/ CallRoundUp
    \/ CallOptimize \/ OptCell \/ OptReturn

Spec == Init /\ [][Next]_vars

(***************************************************************************)
(* The month records the state holds: those of the run in progress or just *)
(* returned, those of the policies the search has evaluated, and those of  *)
(* the re-simulation of the marginal analysis.                             *)
(***************************************************************************)
MonthsOf(q) == { q[i] : i \in DOMAIN q }

SearchRuns ==
    { opt.all_policies[k].months : k \in DOMAIN opt.all_policies }
      \cup { opt.all_policies[k].marginal_analysis.pol_plus.months :
                k \in { j \in DOMAIN opt.all_policies :
                           DOMAIN opt.all_policies[j].marginal_analysis # {} } }

Runs == { loc.months } \cup SearchRuns

Produced == UNION { MonthsOf(q) : q \in Runs }

\* C1: every month record simulate_policy produces has paid_fte >= min_coverage_fte,
\* whatever the policy (also one below the floor), the shocks and the horizon.
\* Legacy mode raises in its first month and produces no record.
PaidFteAtLeastMinCoverage ==
    \A mo \in Produced : mo.paid_fte >= cfg.min_coverage_fte

\* a policy below the floor, a month whose attrition the floor has absorbed
FloorAbsorbedAttrition ==
    /\ base_fte < cfg.min_coverage_fte
    /\ \E mo \in MonthsOf(loc.months) :
           /\ mo.paid_fte = cfg.min_coverage_fte
           /\ mo.turnover_events > 0
           /\ mo.hiring_mode = "winter_ramp"

\* C2: in every month record 0 <= effective_fte <= paid_fte, and the ramp drag of
\* the cohorts still onboarding is never negative, several cohorts at once included.
EffectiveFteWithinPaidFte ==
    /\ \A mo \in Produced : 0 <= mo.effective_fte /\ mo.effective_fte <= mo.paid_fte
    /\ RampDrag(loc.ramp_cohorts, cfg) >= 0

\* two cohorts are onboarding and the month just recorded lost capacity to them
SeveralCohortsOnboarding ==
    /\ Len(loc.ramp_cohorts) >= 2
    /\ loc.months # << >>
    /\ loc.months[Len(loc.months)].effective_fte
          < loc.months[Len(loc.months)].paid_fte
    /\ loc.months[Len(loc.months)].effective_fte > 0

\* the profit identity on the months of one run
EbitdaIdentityOn(q) ==
    \A i \in DOMAIN q :
        /\ q[i].ebitda_contribution =
               q[i].revenue_captured - (q[i].permanent_cost + q[i].support_cost)
                 - q[i].flex_cost - q[i].turnover_cost - q[i].burnout_penalty
                 - cfg.monthly_fixed_overhead
        /\ q[i].cumulative_ebitda =
               SumSeq([k \in 1..i |-> q[k].ebitda_contribution])

\* C3: for every month ebitda_contribution = revenue_captured - (permanent_cost +
\* support_cost) - flex_cost - turnover_cost - burnout_penalty - monthly_fixed_overhead,
\* and cumulative_ebitda of month m is the sum of ebitda_contribution over 1..m.
EbitdaIdentity == \A q \in Runs : EbitdaIdentityOn(q)

\* a run with a fixed overhead, past its first month, every cost line non-zero
EveryCostLinePresent ==
    /\ cfg.monthly_fixed_overhead > 0
    /\ Len(loc.months) >= 2
    /\ \E mo \in MonthsOf(loc.months) :
           /\ mo.flex_cost > 0 /\ mo.burnout_penalty > 0
           /\ mo.turnover_cost > 0 /\ mo.support_cost > 0

\* C4: the best policy optimize returns has an EBITDA >= that of every policy in
\* the list it returns, and is itself one of the list.
BestPolicyMaximisesEbitda ==
    pc = "opt_returned" /\ opt.all_policies # << >> =>
        /\ opt.best_policy \in DOMAIN opt.all_policies
        /\ opt.best_ebitda = << PolicyEbitda(opt.all_policies[opt.best_policy]) >>
        /\ \A k \in DOMAIN opt.all_policies :
               PolicyEbitda(opt.all_policies[opt.best_policy])
                 >= PolicyEbitda(opt.all_policies[k])

\* a search has returned whose best policy is neither the first nor the last cell
\* and beats the first
BestCellInsideGrid ==
    /\ pc = "opt_returned"
    /\ 1 < opt.best_policy /\ opt.best_policy < Len(opt.all_policies)
    /\ PolicyEbitda(opt.all_policies[opt.best_policy])
          > PolicyEbitda(opt.all_policies[1])

Orders(n) == Permutations(1..n)

\* the cell the loop of optimize selects when it meets the policies in this order
SelectedIn(order) == SelectFrom(opt.all_policies, order, 1, << 0, << >> >>)[1]

MaxCells == { k \in DOMAIN opt.all_policies :
                \A j \in DOMAIN opt.all_policies :
                    PolicyEbitda(opt.all_policies[k]) >= PolicyEbitda(opt.all_policies[j]) }

\* C6 as claimed: the grid pair and the trajectory of the selected policy are the
\* same for every evaluation order, cells of equal EBITDA included.
SelectionSameInEveryOrder ==
    pc = "opt_returned" /\ opt.all_policies # << >> =>
        \A order \in Orders(Len(opt.all_policies)) :
            /\ opt.cells[SelectedIn(order)] = opt.cells[opt.best_policy]
            /\ opt.all_policies[SelectedIn(order)].months
                 = opt.all_policies[opt.best_policy].months

\* C6 as amended: in every evaluation order the selected policy is the first of the
\* order that attains the maximal EBITDA, so the selected EBITDA is the same in every
\* order, and the selected cell is the same when one cell alone attains the maximum.
SelectionFirstMaxInOrder ==
    pc = "opt_returned" /\ opt.all_policies # << >> =>
        \A order \in Orders(Len(opt.all_policies)) :
            /\ SelectedIn(order) \in MaxCells
            /\ \A i \in DOMAIN order :
                   order[i] \in MaxCells =>
                       \E j \in 1..i : order[j] = SelectedIn(order)
            /\ Cardinality(MaxCells) = 1 => SelectedIn(order) = opt.best_policy
            /\ SelectedIn([i \in DOMAIN opt.all_policies |-> i]) = opt.best_policy

\* a search has returned in which two cells of maximal EBITDA have different months
TiedCellsWithDifferentMonths ==
    /\ pc = "opt_returned"
    /\ \E k, j \in MaxCells :
           opt.all_policies[k].months # opt.all_policies[j].months

ZoneRank(zone) == IF zone = "Green" THEN 0 ELSE IF zone = "Yellow" THEN 1 ELSE 2

\* the workloads the zone boundaries are probed with, next to those of the run
Workloads ==
    { mo.patients_per_provider_per_shift : mo \in MonthsOf(loc.months) }
      \cup { cfg.budgeted_patients_per_provider_per_day + d :
               d \in { -1000, -1, 0, 1, cfg.yellow_threshold_above,
                       cfg.red_threshold_above, cfg.red_threshold_above + 1 } }
      \cup { 9999000 }

\* C7: a larger workload never has a better zone (Green < Yellow < Red), the workload
\* equal to the budget is Green, and a month with nobody on the floor (workload 9999)
\* is Red.
ZoneMonotonicInWorkload ==
    /\ \A w1, w2 \in Workloads :
           w1 <= w2 => ZoneRank(Zone(w1, cfg)) <= ZoneRank(Zone(w2, cfg))
    /\ Zone(cfg.budgeted_patients_per_provider_per_day, cfg) = "Green"
    /\ \A mo \in Produced :
           /\ mo.patients_per_provider_per_shift
                = cfg.budgeted_patients_per_provider_per_day => mo.zone = "Green"
           /\ mo.providers_on_floor = 0 =>
                  mo.patients_per_provider_per_shift = 9999000 /\ mo.zone = "Red"
    /\ \A mo1, mo2 \in MonthsOf(loc.months) :
           mo1.patients_per_provider_per_shift <= mo2.patients_per_provider_per_shift
               => ZoneRank(mo1.zone) <= ZoneRank(mo2.zone)

\* a run has had Green, Yellow and Red months
RunThroughAllZones ==
    \A z \in { "Green", "Yellow", "Red" } :
        \E mo \in MonthsOf(loc.months) : mo.zone = z /\ mo.providers_on_floor > 0

\* the overload factors a month's attrition is recomputed with
Factors == { 0, 500, 1500, 3000 }

\* the attrition block on the headcount and demand of the month about to be simulated
AttritionWith(factor) ==
    Attrition(loc.paid_fte, loc.ramp_cohorts,
              compute_demand(m, cfg, DictGet(volume_shocks, m + 1))[1],
              [ cfg EXCEPT !.overload_attrition_factor = factor ])

\* C8: with the month's demand and headcount fixed, a larger overload_attrition_factor
\* never gives a smaller effective attrition rate; the rate is never below the base
\* monthly rate and equals it (delta 0) when the estimated workload is within budget.
AttritionMonotoneInOverload ==
    /\ \A mo \in Produced :
           /\ mo.effective_attrition_rate >= monthly_attrition_rate(cfg)
           /\ mo.overload_attrition_delta
                = mo.effective_attrition_rate - monthly_attrition_rate(cfg)
    /\ pc = "loop" /\ m < horizon_months =>
           /\ \A f1, f2 \in Factors \cup { cfg.overload_attrition_factor } :
                  f1 <= f2 =>
                      AttritionWith(f1).effective_monthly_attrition
                        <= AttritionWith(f2).effective_monthly_attrition
           /\ \A f \in Factors \cup { cfg.overload_attrition_factor } :
                  /\ AttritionWith(f).effective_monthly_attrition
                       >= monthly_attrition_rate(cfg)
                  /\ AttritionWith(f).current_load
                       <= cfg.budgeted_patients_per_provider_per_day =>
                         AttritionWith(f).overload_attrition_delta = 0

\* the month about to be simulated is overloaded, and the run has recorded both a
\* month with an overload delta and a month without
OverloadedAndRelievedMonths ==
    /\ pc = "loop" /\ m < horizon_months
    /\ AttritionWith(cfg.overload_attrition_factor).excess_pct > 0
    /\ AttritionWith(3000).effective_monthly_attrition
          > AttritionWith(500).effective_monthly_attrition
    /\ \E mo \in MonthsOf(loc.months) : mo.overload_attrition_delta > 0
    /\ \E mo \in MonthsOf(loc.months) : mo.overload_attrition_delta = 0

\* the modes the hiring decision is said to emit
ListedModes ==
    { "growth", "attrition_replace", "winter_ramp", "floor_protect", "shed_pause",
      "deferred", "maintain", "none" }

\* C9 as claimed: the hiring_mode of every month is one of growth, attrition_replace,
\* winter_ramp, floor_protect, shed_pause, deferred, maintain, none.
HiringModeIsListed ==
    \A mo \in Produced : mo.hiring_mode \in ListedModes

\* C9 as amended: the hiring_mode of every month is one of growth, attrition_replace,
\* winter_ramp, floor_protect, shed_pause, deferred, maintain, none or shed_passive.
HiringModeIsListedOrShedPassive ==
    \A mo \in Produced : mo.hiring_mode \in ListedModes \cup { "shed_passive" }

\* a run has recorded a shed_passive month, a backfill and a deferred hire
RunWithShedPassiveMonth ==
    \A mode \in { "shed_passive", "attrition_replace", "deferred" } :
        \E mo \in MonthsOf(loc.months) : mo.hiring_mode = mode

\* the months the arguments of simulate_stress name
ShockWindow ==
    call.shock_start_month..(call.shock_start_month + call.shock_duration_months - 1)

\* C10: in a simulate_stress run the months outside [shock_start, shock_start +
\* duration) have the demand_visits_per_day of the unshocked run of the same policy,
\* and the months before shock_start are equal to it in every field.
StressOnlyInsideWindow ==
    call.fn = "simulate_stress" =>
        \A i \in DOMAIN loc.months \cap DOMAIN first.months :
            /\ i \notin ShockWindow =>
                   loc.months[i].demand_visits_per_day
                     = first.months[i].demand_visits_per_day
            /\ i < call.shock_start_month => loc.months[i] = first.months[i]

\* a stress run is past its window, which opened after the first month: the shocked
\* months had more demand than in the unshocked run, and a later month, its demand
\* that of the unshocked run, differs from it otherwise
StressRunPastWindow ==
    /\ call.fn = "simulate_stress" /\ pc = "loop"
    /\ call.shock_start_month > 1
    /\ \E i \in DOMAIN loc.months \cap DOMAIN first.months :
           /\ \A k \in ShockWindow : i > k
           /\ loc.months[i] # first.months[i]
           /\ loc.months[i].demand_visits_per_day
                = first.months[i].demand_visits_per_day
    /\ \A k \in ShockWindow :
           /\ k \in DOMAIN loc.months \cap DOMAIN first.months
           /\ loc.months[k].demand_visits_per_day
                > first.months[k].demand_visits_per_day

\* the policies of the state that carry a marginal analysis
Analysed == { k \in DOMAIN opt.all_policies :
                DOMAIN opt.all_policies[k].marginal_analysis # {} }

\* every month of the policy has a workload below the band and none is Red
Overstaffed(p) ==
    \A mo \in MonthsOf(p.months) :
        mo.patients_per_provider_per_shift < cfg.load_band_lo /\ mo.zone # "Red"

\* C11: for a policy whose every month has a workload below load_band_lo and no Red
\* month, compare_marginal_fte with delta_fte = 0.5 reports net_annual <= 0 or
\* red_months_saved = 0.
OverstaffedGainsNothing ==
    \A k \in Analysed :
        Overstaffed(opt.all_policies[k])
          /\ opt.all_policies[k].marginal_analysis.delta_fte = 500 =>
            \/ opt.all_policies[k].marginal_analysis.net_annual <= 0
            \/ opt.all_policies[k].marginal_analysis.red_months_saved = 0

\* the workload of month index mi if the policy's year-round headcount alone staffed it
PolicyHeadcountLoad(mi) ==
    PtsPerProv(compute_demand(mi, cfg, DictGet(volume_shocks, mi + 1))[1],
               ProvidersOnFloor(base_fte, cfg))

\* C12: a run of the policy (2, 2) under a +20 % first-quarter volume impact, in
\* load-band mode or in legacy mode, comes to an end with at least one month of
\* January to March Yellow or Red, whenever 2 FTE leave a first-quarter month above
\* budget + yellow_threshold.
TwoFteStrainedInQ1 ==
    /\ call.fn \in { "simulate_policy", "simulate_policy again" }
    /\ pc \in { "returned", "raised" }
    /\ base_fte = 2000 /\ winter_fte = 2000
    /\ horizon_months >= 3
    /\ cfg.budgeted_patients_per_provider_per_day > 0
    /\ cfg.quarterly_volume_impact[1] = 200
    /\ \E mi \in 0..2 :
           PolicyHeadcountLoad(mi) > cfg.budgeted_patients_per_provider_per_day
                                       + cfg.yellow_threshold_above
    => \E mo \in MonthsOf(loc.months) :
           mo.calendar_month \in 1..3 /\ mo.zone \in { "Yellow", "Red" }

\* the configuration of the shift-coverage example: 80 visits a day, a budget of 36,
\* 7 operating days, 3 contracted shifts a week
ExampleCoverage ==
    /\ cfg.base_visits_per_day = 80000
    /\ cfg.budgeted_patients_per_provider_per_day = 36000
    /\ cfg.operating_days_per_week = 7
    /\ cfg.fte_shifts_per_week = 3000

\* the runs whose first month is at baseline: no seasonal impact, no shock
BaselineRuns ==
    { q \in Runs : q # << >> /\ q[1].seasonal_multiplier = 1000
                     /\ q[1].demand_visits_per_day
                          = compute_demand(0, cfg, 0)[1] }

\* demand_fte_required = (visits / budget) x (operating days / contracted shifts),
\* never below the coverage floor, in every month record
FteRequiredFormula ==
    \A mo \in Produced :
        /\ mo.demand_providers_per_shift
             = DivM(mo.demand_visits_per_day, cfg.budgeted_patients_per_provider_per_day)
        /\ cfg.fte_shifts_per_week > 0 =>
               mo.demand_fte_required
                 = Max2(MulM(mo.demand_providers_per_shift,
                             (cfg.operating_days_per_week * 1000 * 1000)
                                 \div cfg.fte_shifts_per_week),
                        cfg.min_coverage_fte)

\* C13 as claimed: with 80 visits a day, a budget of 36, 7 operating days and 3
\* contracted shifts a week, fte_per_shift_slot is 7/3 and the demand of month 0
\* without seasonal impact is 80/36 concurrent providers and (80/36) x (7/3), about
\* 5.19, FTE; in general fte_required = (visits / budget) x (operating days /
\* contracted shifts).
BaselineDemandIsBaseVisitsOverBudget ==
    /\ FteRequiredFormula
    /\ ExampleCoverage =>
          /\ fte_per_shift_slot(cfg) = 7000 \div 3
          /\ \A q \in BaselineRuns :
                 /\ q[1].demand_providers_per_shift = DivM(80000, 36000)
                 /\ q[1].demand_fte_required \in 5180..5190

\* C13 as amended: the same with the peak factor in its place: the demand of month 0
\* is 80 x peak_factor / 36 concurrent providers, hence 80/36 and about 5.19 FTE when
\* peak_factor = 1; the search floor of optimize is (80/36) x (7/3) rounded up to a
\* quarter, 5.25, whatever the peak factor.
BaselineDemandCarriesPeakFactor ==
    /\ FteRequiredFormula
    /\ ExampleCoverage =>
          /\ fte_per_shift_slot(cfg) = 7000 \div 3
          /\ _baseline_fte(cfg) = 5250
          /\ \A q \in BaselineRuns :
                 /\ q[1].demand_providers_per_shift
                      = DivM(MulM(80000, cfg.peak_factor), 36000)
                 /\ cfg.peak_factor = 1000 =>
                        /\ q[1].demand_providers_per_shift = DivM(80000, 36000)
                        /\ q[1].demand_fte_required \in 5180..5190

\* a run of the example without seasonal impact and with peak_factor = 1 has recorded
\* its first month, and a later one with growth in it
BaselineMonthRecorded ==
    /\ ExampleCoverage /\ cfg.peak_factor = 1000
    /\ loc.months \in BaselineRuns
    /\ loc.months[1].demand_visits_per_day = 80000
    /\ Len(loc.months) >= 13
    /\ loc.months[13].demand_fte_required > loc.months[1].demand_fte_required

\* the configuration of the first run of a caller who has changed the FTE fraction
FirstCfg ==
    [ cfg EXCEPT !.fte_fraction = call.fte_fraction,
                 !.shifts_per_day = call.shifts_per_day ]

\* C14: a run under a configuration that differs from that of an earlier run in
\* fte_fraction or shifts_per_day only has the same fte_per_shift_slot and, month by
\* month, the same demand_fte_required, providers_on_floor, workload and zone.
FractionLeavesCoverageAlone ==
    call.fn = "simulate_policy other fraction" =>
        /\ cfg # FirstCfg
        /\ fte_per_shift_slot(cfg) = fte_per_shift_slot(FirstCfg)
        /\ \A i \in DOMAIN loc.months :
               /\ i \in DOMAIN first.months
               /\ loc.months[i].demand_fte_required
                    = first.months[i].demand_fte_required
               /\ loc.months[i].providers_on_floor = first.months[i].providers_on_floor
               /\ loc.months[i].patients_per_provider_per_shift
                    = first.months[i].patients_per_provider_per_shift
               /\ loc.months[i].zone = first.months[i].zone
        /\ pc = "returned" => Len(result.months) = Len(first.months)

\* the run under the other fraction has returned, with hires made and with months in
\* more than one zone
OtherFractionRunReturned ==
    /\ call.fn = "simulate_policy other fraction" /\ pc = "returned"
    /\ cfg.fte_fraction # call.fte_fraction
    /\ result.hire_events # << >>
    /\ \E mo1, mo2 \in MonthsOf(result.months) : mo1.zone # mo2.zone

\* the calls of consolidate_hire_events the state holds: <<argument, value returned>>
Consolidations ==
    (IF pc = "consolidated" THEN { << cons.hire_events, cons.result >> } ELSE {})
      \cup (IF pc = "returned" THEN { << loc.hire_events, result.hire_events >> }
            ELSE {})

SmallPeakPerDiem(events, small_threshold, peak_months) ==
    \A i \in DOMAIN events :
        events[i].fte_hired <= small_threshold
          /\ events[i].calendar_month \in peak_months
            => events[i].mode = "per_diem"

\* C16: in the list consolidate_hire_events returns, every hire with fte_hired at or
\* below small_threshold and calendar_month in the peak months has mode per_diem,
\* whether or not a larger hire lies near it in the same year.
SmallPeakHiresArePerDiem ==
    /\ pc = "consolidated" =>
           SmallPeakPerDiem(cons.result, cons.small_threshold, cons.peak_months)
    /\ pc = "returned" =>
           SmallPeakPerDiem(result.hire_events, 200, flu_months(cfg))

\* the fixed-overhead term as the sum of the monthly charge over the simulated months
FixedOverMonths == cfg.monthly_fixed_overhead * Len(result.months)

\* C17: whatever the horizon and the fixed overhead, the waterfall of a returned run
\* balances: ebitda = revenue - swb - flex - turnover - burnout - fixed, the fixed term
\* being the monthly overhead summed over the simulated months, and ebitda is the
\* cumulative_ebitda of the last month.
WaterfallBalances ==
    (pc = "returned" /\ result.exc = "none") =>
        LET e == result.ebitda_summary
        IN  /\ e.fixed = FixedOverMonths
            /\ e.ebitda = e.revenue - e.swb - e.flex - e.turnover - e.burnout - e.fixed
            /\ e.ebitda = result.months[Len(result.months)].cumulative_ebitda

\* the exception a call of simulate_policy has ended in: raised on entry or in the
\* loop (kept in the locals), or by the statements after the loop
Raised ==
    IF loc.exc # "none" THEN loc.exc
    ELSE Finish(loc, base_fte, winter_fte, cfg).exc

\* C18: no call of simulate_policy ends in a division by zero, whatever denominator
\* is zero: a zero budget, no shifts per FTE, no operating days, nobody on the floor,
\* or a horizon of no months.
NoDivisionByZero ==
    (pc = "raised" /\ call.fn # "optimize") => Raised # "ZeroDivisionError"

\* a recorded month in which nobody was on the floor, its workload the sentinel
Degenerate(mo) ==
    mo.providers_on_floor = 0 /\ mo.patients_per_provider_per_shift = 9999000

\* C19: a month with nobody on the floor is recorded Red with no visits and no
\* revenue captured, and the run goes on to the end of the horizon.
DegenerateMonthCapturesNothing ==
    /\ \A i \in DOMAIN loc.months :
           Degenerate(loc.months[i]) =>
               /\ loc.months[i].zone = "Red"
               /\ loc.months[i].visits_captured = 0
               /\ loc.months[i].revenue_captured = 0
    /\ (pc = "raised" /\ loc.months # << >>) =>
           ~Degenerate(loc.months[Len(loc.months)])

\* a realistic hire size: one of the fixed increments or, above 2.0, a multiple of 0.5
IsIncrement(fte) ==
    \/ \E i \in DOMAIN _FTE_INCREMENTS : _FTE_INCREMENTS[i] = fte
    \/ fte > 2000 /\ fte % 500 = 0

\* the hire events the state holds: the log of the run and the returned list
LoggedHires ==
    { loc.hire_events[i] : i \in DOMAIN loc.hire_events }
        \cup (IF result.exc = "none"
              THEN { result.hire_events[i] : i \in DOMAIN result.hire_events }
              ELSE {})

\* C20: _round_up_fte(raw) >= raw for raw > 0, its result is a fixed increment or, above
\* 2.0, a multiple of 0.5, it is idempotent and monotone, and every hire event logged
\* has such a size, never 0.
RoundUpCoversInIncrements ==
    /\ (call.fn = "_round_up_fte" /\ call.raw > 0) =>
           /\ call.fte >= call.raw
           /\ IsIncrement(call.fte)
           /\ _round_up_fte(call.fte) = call.fte
           /\ \A r \in RawSizes : r <= call.raw => _round_up_fte(r) <= call.fte
    /\ \A h \in LoggedHires : h.fte_hired > 0 /\ IsIncrement(h.fte_hired)

\* a size above 2.0 that is not a multiple of 0.5 has been rounded
RoundedAboveTwo ==
    /\ pc = "rounded"
    /\ call.raw > 2000
    /\ call.fte > call.raw

\* month index mi (0-based) is the first month after a flu season
FirstPostFlu(mi) ==
    /\ mi > 0
    /\ ((mi % 12) + 1) \notin flu_months(cfg)
    /\ (((mi - 1) % 12) + 1) \in flu_months(cfg)

\* C21: a hire deferred during the flu season is executed in the first month after it,
\* whatever the anchor month: in that pass of the loop a hire of at least the deferred
\* amount is logged and added to paid_fte, and deferred_fte is reset to 0.
DeferredHireExecutedAfterFlu ==
    [][ (pc = "loop" /\ pc' = "loop" /\ m' = m + 1
             /\ FirstPostFlu(m) /\ loc.deferred_fte > 0)
        => /\ loc'.deferred_fte = 0
           /\ \E i \in DOMAIN loc'.hire_events :
                  /\ i > Len(loc.hire_events)
                  /\ loc'.hire_events[i].simulation_month = m + 1
                  /\ loc'.hire_events[i].fte_hired >= loc.deferred_fte
                  /\ loc'.paid_fte >= AfterAttrition(loc.paid_fte,
                                         loc'.months[m + 1].turnover_events, cfg)
                                      + loc'.hire_events[i].fte_hired ]_vars

\* target_fte as the loop body sets it for month index mi, from the locals s at the
\* start of the month
MonthTargetFte(s, mi) ==
    LET cal_month == (mi % 12) + 1
        demand    == compute_demand(mi, cfg, DictGet(volume_shocks, mi + 1))
    IN  IF cfg.use_load_band
        THEN BandTarget(IF cal_month \in active_pre_flu(cfg)
                        THEN PreFlu(s, mi, winter_fte, cfg).target_fte
                        ELSE WinterTarget(demand[1], winter_fte, cfg),
                        demand[1], cal_month, base_fte, cfg).target_fte
        ELSE LegacyTarget(cal_month, base_fte, winter_fte, cfg)

\* C22: in every month about to be simulated, in load-band and in legacy mode, the
\* target headcount of the hiring decision is at least min_coverage_fte.
TargetAtLeastMinCoverage ==
    (pc = "loop" /\ m < horizon_months) =>
        MonthTargetFte(loc, m) >= cfg.min_coverage_fte

\* the attrition of month index mi computed from the headcount and the cohorts the
\* previous month left in s
CarriedOverAttrition(s, mi) ==
    Attrition(s.paid_fte, s.ramp_cohorts,
              compute_demand(mi, cfg, DictGet(volume_shocks, mi + 1))[1], cfg)

\* C23: in every pass of the loop attrition is computed from and applied to the
\* headcount carried over from the previous month, before any hire of the month: the
\* month's turnover_events is the attrition of that headcount, so no FTE hired in the
\* month is counted in it.
AttritionBeforeHires ==
    [][ (pc = "loop" /\ m' = m + 1 /\ loc'.exc = "none" /\ Len(loc'.months) = m + 1)
        => loc'.months[m + 1].turnover_events
             = CarriedOverAttrition(loc, m).attrition_events ]_vars

RECURSIVE SumScheduled(_, _)
\* the FTE a set of years of the scheduled_anchor_hires dict holds
SumScheduled(d, years) ==
    IF years = {} THEN 0
    ELSE LET y == CHOOSE x \in years : TRUE
         IN  d[y] + SumScheduled(d, years \ {y})

\* C24: whatever the anchor month, every hire scheduled by a look-ahead month is added
\* to paid_fte, once, in the next anchor month simulated: in the pass of an anchor
\* month all FTE scheduled so far are added to the headcount left by attrition and
\* none stays scheduled.
ScheduledHiresStartAtAnchor ==
    [][ (pc = "loop" /\ m' = m + 1 /\ loc'.exc = "none" /\ Len(loc'.months) = m + 1
             /\ (m % 12) + 1 = cfg.flu_anchor_month)
        => /\ DOMAIN loc'.scheduled_anchor_hires = {}
           /\ loc'.paid_fte >=
                  AfterAttrition(loc.paid_fte, loc'.months[m + 1].turnover_events, cfg)
                    + SumScheduled(loc.scheduled_anchor_hires,
                                   DOMAIN loc.scheduled_anchor_hires) ]_vars

\* the FTE of the hire events the pass of the loop just made has logged
LoggedThisMonth ==
    SumSeq([i \in 1..(Len(loc'.hire_events) - Len(loc.hire_events)) |->
               loc'.hire_events[Len(loc.hire_events) + i].fte_hired])

\* C25: in a flu month the hiring decision hires only when paid_fte is below 1.05 x
\* min_coverage_fte; otherwise nothing is hired or logged in the month, and a shortfall
\* against the target is recorded as 'deferred', deferred_fte being the largest
\* shortfall of the freeze so far.
FluMonthsFreezeHiring ==
    [][ (pc = "loop" /\ m' = m + 1 /\ loc'.exc = "none" /\ Len(loc'.months) = m + 1
             /\ ((m % 12) + 1) \in flu_months(cfg))
        => /\ Len(loc'.hire_events) > Len(loc.hire_events) =>
                  (loc'.paid_fte - LoggedThisMonth) * 100 < cfg.min_coverage_fte * 105
           /\ (Len(loc'.hire_events) = Len(loc.hire_events)
                  /\ loc'.paid_fte < MonthTargetFte(loc, m)) =>
                  /\ loc'.months[m + 1].hiring_mode = "deferred"
                  /\ loc'.deferred_fte
                       = Max2(loc.deferred_fte,
                              MonthTargetFte(loc, m) - loc'.paid_fte) ]_vars

\* months of savings that recover a yearly cost, in thousandths of a month
MonthsToRecover(annual_cost_delta, annual_savings) ==
    ((annual_cost_delta * 12) \div annual_savings) * 1000
      + (((annual_cost_delta * 12) % annual_savings) * 1000) \div annual_savings

\* C26: in every marginal analysis attached, net_annual = annual_savings -
\* annual_cost_delta; with annual_savings > 0 payback_months is annual_cost_delta /
\* (annual_savings / 12), which is not negative when the cost is not negative; with
\* annual_savings <= 0 it is infinite.
PaybackRecoversCost ==
    \A k \in Analysed :
        LET ma == opt.all_policies[k].marginal_analysis
        IN  /\ ma.net_annual = ma.annual_savings - ma.annual_cost_delta
            /\ IF ma.annual_savings > 0
               THEN /\ ma.payback_months
                         = MonthsToRecover(ma.annual_cost_delta, ma.annual_savings)
                    /\ ma.annual_cost_delta >= 0 => ma.payback_months >= 0
               ELSE ma.payback_months = "inf"

\* a (month, year) date as a count of months, January of year 1 being 0
MonthCount(cal_month, year) == (year - 1) * 12 + cal_month - 1

\* C27: every hire event logged carries the calendar month and year of its
\* simulation_month, posting and independence months in 1..12, a post-by date exactly
\* lead_months before the decision date, and an independence date not before it.
HireEventDatesConsistent ==
    pc \in { "loop", "returned" } =>
        \A i \in DOMAIN loc.hire_events :
            LET h        == loc.hire_events[i]
                decision == h.simulation_month - 1
            IN  /\ h.calendar_month = (decision % 12) + 1
                /\ h.year = (decision \div 12) + 1
                /\ h.post_by_month \in 1..12
                /\ h.independent_month \in 1..12
                /\ MonthCount(h.post_by_month, h.post_by_year)
                     = decision - lead_months(cfg)
                /\ MonthCount(h.post_by_month, h.post_by_year) <= decision
                /\ MonthCount(h.independent_month, h.independent_year) >= decision

\* some hire event of the log was decided in simulation month sm
HireDecidedIn(sm) ==
    \E i \in DOMAIN loc.hire_events : loc.hire_events[i].simulation_month = sm

\* C28: a month whose hiring_mode is growth, attrition_replace, winter_ramp or
\* floor_protect has a hire event decided in it, and a month whose hiring_mode is
\* shed_pause, deferred, maintain or none has none.
HiringModeAgreesWithLog ==
    pc \in { "loop", "returned" } =>
        \A i \in DOMAIN loc.months :
            /\ loc.months[i].hiring_mode
                 \in { "growth", "attrition_replace", "winter_ramp", "floor_protect" }
               => HireDecidedIn(loc.months[i].month)
            /\ loc.months[i].hiring_mode
                 \in { "shed_pause", "deferred", "maintain", "none" }
               => ~HireDecidedIn(loc.months[i].month)

\* a pass of the month loop that has recorded month index m
MonthRecorded ==
    pc = "loop" /\ m' = m + 1 /\ loc'.exc = "none" /\ Len(loc'.months) = m + 1

\* the FTE of the hire events logged in the pass that started work at once: all but
\* the anchor hires a look-ahead month schedules
StartedThisMonth ==
    SumSeq([i \in 1..(Len(loc'.hire_events) - Len(loc.hire_events)) |->
               IF loc'.hire_events[Len(loc.hire_events) + i].mode = "winter_ramp"
               THEN 0
               ELSE loc'.hire_events[Len(loc.hire_events) + i].fte_hired])

\* the scheduled anchor hires that started work in the pass
AnchorStarted ==
    SumScheduled(loc.scheduled_anchor_hires,
                 DOMAIN loc.scheduled_anchor_hires \ DOMAIN loc'.scheduled_anchor_hires)

\* the bridge hire of the pass, made before attrition in a look-ahead month
BridgeStarted ==
    IF ((m % 12) + 1) \in active_pre_flu(cfg) THEN StartedThisMonth ELSE 0

\* C29 as stated: paid_fte after a month is paid_fte before it minus the month's
\* turnover_events plus the FTE of the hires applied in the month.
HeadcountConserved ==
    [][ MonthRecorded =>
          loc'.paid_fte = loc.paid_fte - loc'.months[m + 1].turnover_events
                            + StartedThisMonth + AnchorStarted ]_vars

\* C29: paid_fte after a month is paid_fte before it (with the month's bridge hire)
\* minus the month's turnover_events, raised to min_coverage_fte when below it, plus
\* the FTE of the other hires applied in the month; so headcount is conserved in every
\* month in which the coverage floor does not bind.
HeadcountConservedAboveFloor ==
    [][ MonthRecorded =>
          loc'.paid_fte
            = Max2(cfg.min_coverage_fte,
                   loc.paid_fte + BridgeStarted - loc'.months[m + 1].turnover_events)
                + (StartedThisMonth - BridgeStarted) + AnchorStarted ]_vars

\* the first month raised a seed headcount below the coverage floor to the floor
\* without a hire
RaisedToFloorWithoutHire ==
    /\ pc = "loop" /\ m = 1 /\ loc.exc = "none"
    /\ InitLocals(base_fte, winter_fte, cfg).paid_fte < cfg.min_coverage_fte
    /\ loc.paid_fte = cfg.min_coverage_fte
    /\ loc.months[1].turnover_events > 0
    /\ loc.hire_events = << >>

\* the run of simulate_policy with the headline numbers a policy carries, under the
\* configuration and the horizon of the search
RerunOf(pol) ==
    simulate_policy(pol.base_fte, pol.winter_fte, cfg, horizon_months, << >>)

\* C30: when optimize has returned a best policy, a run of simulate_policy with its
\* base_fte and winter_fte reproduces its months and its summary, the policy compared
\* in its marginal analysis has exactly delta_fte more of each, and every policy of
\* the returned list still has the headline numbers of the grid cell it was run for.
ReturnedBestIsSelfConsistent ==
    (pc = "opt_returned" /\ opt.best_policy # 0) =>
        LET best == opt.all_policies[opt.best_policy]
            ma   == best.marginal_analysis
        IN  /\ RerunOf(best).months = best.months
            /\ RerunOf(best).summary = best.summary
            /\ ma.pol_plus.base_fte = best.base_fte + ma.delta_fte
            /\ ma.pol_plus.winter_fte = best.winter_fte + ma.delta_fte
            /\ \A k \in DOMAIN opt.all_policies :
                   /\ opt.all_policies[k].base_fte = opt.cells[k][1]
                   /\ opt.all_policies[k].winter_fte = opt.cells[k][2]


====
